---------------------------- MODULE Spec2Model ----------------------------
(***************************************************************************)
(* A model of cc::PictureLayerTiling (cc/resources/picture_layer_tiling.cc) *)
(* with its collaborators: the tile grid (TilingData), the tile bundles    *)
(* shared between twin tilings, and the PictureLayerTilingClient.          *)
(*                                                                         *)
(* Two tilings "A" and "B" are each other's twin.  Tile bundles and tiles  *)
(* are heap objects named by positive integers; 0 is the NULL pointer.     *)
(*                                                                         *)
(* The module also models content::StreamTextureProxyImpl                  *)
(* (stream_texture_factory_impl.cc) with its lock and its message loop.    *)
(***************************************************************************)
EXTENDS Integers, Sequences, FiniteSets, TLC

(***************************************************************************)
(* Bounds of the model.                                                    *)
(***************************************************************************)
\* largest frame time passed to UpdateTilePriorities
MaxFrameTime == 2
\* largest max_tiles_for_interest_area passed to UpdateTilePriorities
MaxInterestTiles == 2
\* largest number of BindToLoop calls made on a stream texture proxy
MaxBinds == 2
\* largest number of notifications a stream texture host delivers
MaxNotifications == 2

(***************************************************************************)
(* Program constants.                                                      *)
(***************************************************************************)
kTileBundleWidth == 2
kTileBundleHeight == 2
\* tiling_data_(gfx::Size(), gfx::Size(), true): one border texel
border_texels == 1

PENDING_TREE == "PENDING_TREE"
ACTIVE_TREE == "ACTIVE_TREE"
WhichTree == {PENDING_TREE, ACTIVE_TREE}

\* enum TileResolution; a new tiling has NON_IDEAL_RESOLUTION
NON_IDEAL_RESOLUTION == "NON_IDEAL_RESOLUTION"

\* the NULL pointer (Tile*, TileBundle*)
NULL == 0

(***************************************************************************)
(* Integer helpers.                                                        *)
(***************************************************************************)
Max(a, b) == IF a >= b THEN a ELSE b
Min(a, b) == IF a <= b THEN a ELSE b

\* C++ integer division: the quotient is truncated toward zero
Quot(a, b) ==
  IF (a >= 0) = (b > 0)
    THEN (IF a >= 0 THEN a ELSE -a) \div (IF b > 0 THEN b ELSE -b)
    ELSE -((IF a >= 0 THEN a ELSE -a) \div (IF b > 0 THEN b ELSE -b))

\* std::floor / std::ceil of v * num / den, for den > 0
FloorMul(v, num, den) == (v * num) \div den
CeilMul(v, num, den) == -((-(v * num)) \div den)

(***************************************************************************)
(* gfx::Size and gfx::Rect.                                                *)
(***************************************************************************)
Size(w, h) == [w |-> Max(w, 0), h |-> Max(h, 0)]
SizeIsEmpty(s) == s.w = 0 \/ s.h = 0

\* gfx::Rect(x, y, width, height): negative extents are clamped to 0
Rect(x, y, w, h) == [x |-> x, y |-> y, w |-> Max(w, 0), h |-> Max(h, 0)]
\* gfx::Rect(): the default-constructed rectangle
EmptyRect == Rect(0, 0, 0, 0)
\* gfx::Rect(size)
RectOfSize(s) == Rect(0, 0, s.w, s.h)

Right(r) == r.x + r.w
Bottom(r) == r.y + r.h
IsEmpty(r) == r.w = 0 \/ r.h = 0

\* gfx::Rect::Intersect / gfx::IntersectRects
IntersectRects(a, b) ==
  IF IsEmpty(a) \/ IsEmpty(b) THEN EmptyRect
  ELSE LET rx == Max(a.x, b.x)
           ry == Max(a.y, b.y)
           rr == Min(Right(a), Right(b))
           rb == Min(Bottom(a), Bottom(b))
       IN IF rx >= rr \/ ry >= rb THEN EmptyRect
          ELSE Rect(rx, ry, rr - rx, rb - ry)

\* gfx::Rect::Intersects
Intersects(a, b) ==
  ~(IsEmpty(a) \/ IsEmpty(b) \/ b.x >= Right(a) \/ Right(b) <= a.x
      \/ b.y >= Bottom(a) \/ Bottom(b) <= a.y)

\* gfx::Rect::Contains(rect)
Contains(a, b) ==
  b.x >= a.x /\ Right(b) <= Right(a) /\ b.y >= a.y /\ Bottom(b) <= Bottom(a)

\* gfx::Rect::Inset(left, top, right, bottom)
Inset(r, l, t, rt, b) == Rect(r.x + l, r.y + t, r.w - l - rt, r.h - t - b)

\* gfx::ScaleToEnclosingRect(rect, num/den)
ScaleToEnclosingRect(r, num, den) ==
  LET x == FloorMul(r.x, num, den)
      y == FloorMul(r.y, num, den)
      rr == IF r.w = 0 THEN x ELSE CeilMul(Right(r), num, den)
      bb == IF r.h = 0 THEN y ELSE CeilMul(Bottom(r), num, den)
  IN Rect(x, y, rr - x, bb - y)

\* gfx::ToCeiledSize(gfx::ScaleSize(size, num/den))
ToCeiledScaledSize(s, num, den) == Size(CeilMul(s.w, num, den), CeilMul(s.h, num, den))
\* gfx::ToFlooredSize(gfx::ScaleSize(size, num/den))
ToFlooredScaledSize(s, num, den) == Size(FloorMul(s.w, num, den), FloorMul(s.h, num, den))

\* cc::Region as the sequence of rectangles Region::Iterator yields
RegionIntersects(region, r) == \E k \in 1..Len(region) : Intersects(region[k], r)

\* Region(rect).Subtract(other) for two rectangles with origin (0,0): the
\* rectangles Region::Iterator yields, band by band from the top
RegionSubtract(a, b) ==
  LET upper_band == Rect(Right(b), 0, Right(a) - Right(b), Min(Bottom(a), Bottom(b)))
      lower_band == Rect(0, Bottom(b), Right(a), Bottom(a) - Bottom(b))
  IN IF IsEmpty(b) THEN SelectSeq(<<a>>, LAMBDA q : ~IsEmpty(q))
     ELSE SelectSeq(<<upper_band, lower_band>>, LAMBDA q : ~IsEmpty(q))

(***************************************************************************)
(* cc::TilingData: the tile grid of a tiling, td = [total, tile].          *)
(***************************************************************************)
TilingData(total, tile) == [total |-> total, tile |-> tile]

ComputeNumTiles(max_texture_size, total_size) ==
  IF max_texture_size - 2 * border_texels <= 0
    THEN (IF total_size > 0 /\ max_texture_size >= total_size THEN 1 ELSE 0)
    ELSE IF total_size > 0
      THEN Max(1, 1 + Quot(total_size - 1 - 2 * border_texels,
                           max_texture_size - 2 * border_texels))
      ELSE 0

num_tiles_x(td) == ComputeNumTiles(td.tile.w, td.total.w)
num_tiles_y(td) == ComputeNumTiles(td.tile.h, td.total.h)

TileXIndexFromSrcCoord(td, src_position) ==
  IF num_tiles_x(td) <= 1 THEN 0
  ELSE Min(Max(Quot(src_position - border_texels,
                    td.tile.w - 2 * border_texels), 0), num_tiles_x(td) - 1)

TileYIndexFromSrcCoord(td, src_position) ==
  IF num_tiles_y(td) <= 1 THEN 0
  ELSE Min(Max(Quot(src_position - border_texels,
                    td.tile.h - 2 * border_texels), 0), num_tiles_y(td) - 1)

TileBounds(td, i, j) ==
  LET sx == td.tile.w - 2 * border_texels
      sy == td.tile.h - 2 * border_texels
      lo_x == sx * i + (IF i # 0 THEN border_texels ELSE 0)
      lo_y == sy * j + (IF j # 0 THEN border_texels ELSE 0)
      hi_x == Min(sx * (i + 1) + border_texels
                    + (IF i + 1 = num_tiles_x(td) THEN border_texels ELSE 0),
                  td.total.w)
      hi_y == Min(sy * (j + 1) + border_texels
                    + (IF j + 1 = num_tiles_y(td) THEN border_texels ELSE 0),
                  td.total.h)
  IN Rect(lo_x, lo_y, hi_x - lo_x, hi_y - lo_y)

TileBoundsWithBorder(td, i, j) ==
  LET WithBorder(b) ==
        LET x1 == b.x - (IF border_texels > 0 /\ i > 0 THEN 1 ELSE 0)
            x2 == Right(b) + (IF border_texels > 0 /\ i < num_tiles_x(td) - 1 THEN 1 ELSE 0)
            y1 == b.y - (IF border_texels > 0 /\ j > 0 THEN 1 ELSE 0)
            y2 == Bottom(b) + (IF border_texels > 0 /\ j < num_tiles_y(td) - 1 THEN 1 ELSE 0)
        IN Rect(x1, y1, x2 - x1, y2 - y1)
  IN WithBorder(TileBounds(td, i, j))

\* the cells <<i, j>> of the index range [l..r] x [t..b], row by row
RECURSIVE RowMajor(_, _, _, _, _, _)
RowMajor(l, r, t, b, i, j) ==
  IF j > b \/ l > r THEN <<>>
  ELSE IF i > r THEN RowMajor(l, r, t, b, l, j + 1)
  ELSE <<(<<i, j>>)>> \o RowMajor(l, r, t, b, i + 1, j)

\* the index range [l, r, t, b] of the tiles a non-empty rectangle overlaps
IndexRange(td, r) ==
  [l |-> TileXIndexFromSrcCoord(td, r.x),
   r |-> TileXIndexFromSrcCoord(td, Right(r) - 1),
   t |-> TileYIndexFromSrcCoord(td, r.y),
   b |-> TileYIndexFromSrcCoord(td, Bottom(r) - 1)]

\* TilingData::Iterator(td, rect): the cells it visits, in order
IteratorCells(td, tiling_rect) ==
  LET Visit(rect, g) ==
        IF ~Intersects(TileBoundsWithBorder(td, g.l, g.t), rect) THEN <<>>
        ELSE RowMajor(g.l, g.r, g.t, g.b, g.l, g.t)
      Clipped(rect) == Visit(rect, IndexRange(td, rect))
  IN IF num_tiles_x(td) <= 0 \/ num_tiles_y(td) <= 0 THEN <<>>
     ELSE Clipped(IntersectRects(tiling_rect, RectOfSize(td.total)))

\* TilingData::DifferenceIterator(td, consider, ignore): the cells of
\* consider's index range that are not in ignore's index range, in order
DifferenceIteratorCells(td, consider_rect, ignore_rect) ==
  LET Visit(ignore, c, g) ==
        LET in_ignore(cell) ==
              /\ ~IsEmpty(ignore)
              /\ cell[1] >= Max(g.l, c.l) /\ cell[1] <= Min(g.r, c.r)
              /\ cell[2] >= Max(g.t, c.t) /\ cell[2] <= Min(g.b, c.b)
        IN SelectSeq(RowMajor(c.l, c.r, c.t, c.b, c.l, c.t),
                     LAMBDA cell : ~in_ignore(cell))
      Clipped(consider, ignore) ==
        IF IsEmpty(consider) THEN <<>>
        ELSE Visit(ignore, IndexRange(td, consider), IndexRange(td, ignore))
  IN IF num_tiles_x(td) <= 0 \/ num_tiles_y(td) <= 0 THEN <<>>
     ELSE Clipped(IntersectRects(consider_rect, RectOfSize(td.total)),
                  IntersectRects(ignore_rect, RectOfSize(td.total)))

(***************************************************************************)
(* The tilings and the heap.                                               *)
(***************************************************************************)
VARIABLES
  tilings,    \* tilings[t]: the fields of PictureLayerTiling t
  heap,       \* heap[b]: the TileBundle b, for every bundle some tiling holds
  log,        \* the calls the last operation made on bundles and on the client
  last_op,    \* the last operation: its name, its tiling and its arguments
  iterator,   \* the fields of a PictureLayerTiling::CoverageIterator
  proxy       \* a StreamTextureProxyImpl, its message loop and its callers

vars == <<tilings, heap, log, last_op, iterator, proxy>>

\* the two tilings of a layer's two trees
Tilings == {"A", "B"}

\* TilePriority(resolution, time_to_visible, distance_to_visible): a record
\* keeps the resolution and the distance in whole pixels; -1 stands for the
\* infinite distance of the default-constructed TilePriority()
HIGH_RESOLUTION == "HIGH_RESOLUTION"
DefaultPriority == [resolution |-> NON_IDEAL_RESOLUTION, distance_to_visible_in_pixels |-> -1]
TilePriority(resolution, distance) ==
  [resolution |-> resolution, distance_to_visible_in_pixels |-> distance]

\* a TileBundle: tiles[<<tree, i, j>>] for the occupied slots, priority[tree]
NewTileBundle ==
  [tiles |-> <<>>, priority |-> [tree \in WhichTree |-> DefaultPriority]]

\* the slots <<tree, i, j>> of a set in a fixed order: by column, by row,
\* pending tree first
RECURSIVE SlotOrder(_)
SlotOrder(slots) ==
  IF slots = {} THEN <<>>
  ELSE LET before(p, q) ==
             \/ p[2] < q[2]
             \/ p[2] = q[2] /\ p[3] < q[3]
             \/ p[2] = q[2] /\ p[3] = q[3] /\ (p[1] = PENDING_TREE \/ q[1] = ACTIVE_TREE)
           first == CHOOSE p \in slots : \A q \in slots : before(p, q)
       IN <<first>> \o SlotOrder(slots \ {first})

\* a sequence without the repetitions of its elements
RECURSIVE Distinct(_)
Distinct(seq) ==
  IF seq = <<>> THEN <<>>
  ELSE LET rest == Distinct(SubSeq(seq, 1, Len(seq) - 1))
       IN IF \E k \in 1..Len(rest) : rest[k] = seq[Len(seq)]
            THEN rest ELSE Append(rest, seq[Len(seq)])

\* the concatenation of the sequences f[1], ..., f[n]
RECURSIVE Concat(_, _)
Concat(f, n) == IF n = 0 THEN <<>> ELSE Concat(f, n - 1) \o f[n]

\* the position of an element in a sequence that holds it
IndexOf(seq, e) == CHOOSE k \in 1..Len(seq) : seq[k] = e

\* the values of a function at the arguments of a sequence, in its order
ValuesAt(f, order) == [k \in 1..Len(order) |-> f[order[k]]]

\* the keys of a bundle map in the order std::map iterates them
RECURSIVE MapOrder(_)
MapOrder(keys) ==
  IF keys = {} THEN <<>>
  ELSE LET first == CHOOSE k \in keys :
                      \A q \in keys : k[1] < q[1] \/ (k[1] = q[1] /\ k[2] <= q[2])
       IN <<first>> \o MapOrder(keys \ {first})

\* Heap objects have no meaningful names.  Naming(tl, hp) gives the bundles
\* and the tiles of a state the names 1, 2, ... in a fixed order of discovery
\* (tiling A's map, then B's; the slots of each bundle in SlotOrder), so that
\* states that differ only in the names of their objects work alike.
Naming(tl, hp) ==
  LET refs(t) == ValuesAt(tl[t].tile_bundles, MapOrder(DOMAIN tl[t].tile_bundles))
      held(b) == ValuesAt(hp[b].tiles, SlotOrder(DOMAIN hp[b].tiles))
      Names(bundle_names) ==
        [bundles |-> bundle_names,
         tiles |-> Distinct(Concat([n \in 1..Len(bundle_names) |-> held(bundle_names[n])],
                                   Len(bundle_names)))]
  IN Names(Distinct(refs("A") \o refs("B")))

\* the tilings and the heap under that naming
Renamed(tl, hp) ==
  LET Under(names) ==
        [tl |-> [t \in Tilings |->
                   [tl[t] EXCEPT !.tile_bundles =
                      [k \in DOMAIN @ |-> IndexOf(names.bundles, @[k])]]],
         heap |-> [n \in 1..Len(names.bundles) |->
                     [hp[names.bundles[n]] EXCEPT !.tiles =
                        [s \in DOMAIN @ |-> IndexOf(names.tiles, @[s])]]]]
  IN Under(Naming(tl, hp))

\* the world an operation starts in: the tilings and the heap, no call
\* logged, and pre the tiles that exist as the operation begins
World ==
  LET Start(named) ==
        [tl |-> named.tl, heap |-> named.heap, log |-> <<>>,
         pre |-> UNION {{named.heap[b].tiles[s] : s \in DOMAIN named.heap[b].tiles} :
                          b \in DOMAIN named.heap}]
  IN Start(Renamed(tilings, heap))

\* the world the step ends in
WorldAfter == [tl |-> tilings', heap |-> heap', log |-> log']

Log(w, e) == [w EXCEPT !.log = Append(@, e)]

\* the least positive integer outside a finite set
LeastFree(used) ==
  CHOOSE n \in 1..(Cardinality(used) + 1) :
    n \notin used /\ \A m \in 1..(n - 1) : m \in used

TilesOf(w) == UNION {{w.heap[b].tiles[s] : s \in DOMAIN w.heap[b].tiles} : b \in DOMAIN w.heap}

\* a tile object that did not exist before the operation and does not now
NewTile(w) == LeastFree(TilesOf(w) \cup w.pre)

\* scoped_refptr<TileBundle>: a bundle no tiling refers to is destroyed
Release(w) ==
  LET held == UNION {{w.tl[t].tile_bundles[k] : k \in DOMAIN w.tl[t].tile_bundles} : t \in Tilings}
  IN [w EXCEPT !.heap = [b \in (DOMAIN w.heap) \cap held |-> w.heap[b]]]

(***************************************************************************)
(* cc::TileBundle.                                                         *)
(***************************************************************************)
\* TileBundle::SwapTilesIfRequired: the hook run before a bundle is read
SwapTilesIfRequired(w, b) == Log(w, <<"SwapTilesIfRequired", b>>)

\* TileBundle::TileAt(tree, i, j): the tile of the slot, or NULL
BundleTileAt(w, b, tree, i, j) ==
  IF <<tree, i, j>> \in DOMAIN w.heap[b].tiles
    THEN w.heap[b].tiles[<<tree, i, j>>] ELSE NULL

\* TileBundle::AddTileAt(tree, i, j, tile)
AddTileAt(w, b, tree, i, j, tile) ==
  LET old == w.heap[b].tiles
      new == [s \in (DOMAIN old) \cup {<<tree, i, j>>} |->
                IF s = <<tree, i, j>> THEN tile ELSE old[s]]
  IN Log([w EXCEPT !.heap[b].tiles = new], <<"AddTileAt", b, tree, i, j, tile>>)

\* TileBundle::RemoveTileAt(tree, i, j): empties the slot
RemoveTileAt(w, b, tree, i, j) ==
  LET old == w.heap[b].tiles
      new == [s \in (DOMAIN old) \ {<<tree, i, j>>} |-> old[s]]
  IN Log([w EXCEPT !.heap[b].tiles = new], <<"RemoveTileAt", b, tree, i, j>>)

\* TileBundle::IsEmpty: no slot of either tree is occupied
BundleIsEmpty(w, b) == DOMAIN w.heap[b].tiles = {}

\* the tiles TileBundle::Iterator(bundle, tree) yields, cell by cell
BundleIteratorTiles(w, b, tree) ==
  LET slots == {s \in DOMAIN w.heap[b].tiles : s[1] = tree}
      cols == {s[2] : s \in slots}
      rows == {s[3] : s \in slots}
      cells == IF slots = {} THEN <<>>
               ELSE LET l == CHOOSE c \in cols : \A d \in cols : c <= d
                        r == CHOOSE c \in cols : \A d \in cols : c >= d
                        t == CHOOSE c \in rows : \A d \in rows : c <= d
                        bt == CHOOSE c \in rows : \A d \in rows : c >= d
                    IN SelectSeq(RowMajor(l, r, t, bt, l, t),
                                 LAMBDA c : <<tree, c[1], c[2]>> \in slots)
  IN [k \in 1..Len(cells) |-> w.heap[b].tiles[<<tree, cells[k][1], cells[k][2]>>]]

\* TileBundle::Iterator(bundle, tree): the construction of the iterator, the
\* first read of the bundle's slots
BundleIterator(w, b, tree) == Log(w, <<"Iterator", b, tree>>)

\* TileBundle::Iterator(bundle): the iterator over the tiles of both trees
BundleIteratorAllTiles(w, b) ==
  BundleIteratorTiles(w, b, ACTIVE_TREE) \o BundleIteratorTiles(w, b, PENDING_TREE)

\* TileBundle::DidBecomeRecycled: the bundle may drop its pending tree tiles
BundleDidBecomeRecycled(w, b, drop) ==
  LET old == w.heap[b].tiles
      new == [s \in {q \in DOMAIN old : q[1] # PENDING_TREE} |-> old[s]]
  IN Log([w EXCEPT !.heap[b].tiles = IF drop THEN new ELSE old],
         <<"DidBecomeRecycled", b>>)

\* TileBundle::DidBecomeActive: the pending tree tiles become the active
\* tree's, and the tiles of the tree that was active take their place
BundleDidBecomeActive(w, b) ==
  LET old == w.heap[b].tiles
      other(tree) == IF tree = ACTIVE_TREE THEN PENDING_TREE ELSE ACTIVE_TREE
      new == [s \in {<<other(q[1]), q[2], q[3]>> : q \in DOMAIN old} |->
                old[<<other(s[1]), s[2], s[3]>>]]
  IN Log([w EXCEPT !.heap[b].tiles = new], <<"DidBecomeActive", b>>)

\* TileBundle::SetPriority(tree, priority)
BundleSetPriority(w, b, tree, priority) ==
  Log([w EXCEPT !.heap[b].priority[tree] = priority], <<"SetPriority", b, tree>>)

(***************************************************************************)
(* PictureLayerTiling: bundles and tiles.                                  *)
(***************************************************************************)
\* the value of a PictureLayerTiling* that points to no tiling
NoTiling == "none"

ComputeTileBundleIndex(i, j) == <<Quot(i, kTileBundleWidth), Quot(j, kTileBundleHeight)>>

ComputeBundleTextureSize(tile_size) ==
  LET inner_tile_width == tile_size.w - 2 * border_texels
      bundle_width == inner_tile_width * kTileBundleWidth + 2 * border_texels
      inner_tile_height == tile_size.h - 2 * border_texels
      bundle_height == inner_tile_height * kTileBundleHeight + 2 * border_texels
  IN Size(bundle_width, bundle_height)

ContentRect(w, t) == RectOfSize(w.tl[t].tiling_data.total)

\* tile_bundles_.find(key): the bundle stored under the key, or NULL
FindBundle(w, t, key) ==
  IF key \in DOMAIN w.tl[t].tile_bundles THEN w.tl[t].tile_bundles[key] ELSE NULL

\* TileBundleAt(i, j): runs the hook of the bundle it finds and returns it
TileBundleAt(w, t, key) ==
  IF FindBundle(w, t, key) = NULL THEN w
  ELSE SwapTilesIfRequired(w, FindBundle(w, t, key))

TileBundleContainingTileAt(w, t, i, j) == TileBundleAt(w, t, ComputeTileBundleIndex(i, j))

\* the pointer TileAt(tree, i, j) returns
TileAtResult(w, t, tree, i, j) ==
  LET b == FindBundle(w, t, ComputeTileBundleIndex(i, j))
  IN IF b = NULL THEN NULL ELSE BundleTileAt(w, b, tree, i, j)

\* TileAt(tree, i, j): the calls it makes
TileAt(w, t, tree, i, j) ==
  LET b == FindBundle(w, t, ComputeTileBundleIndex(i, j))
  IN IF b = NULL THEN w
     ELSE Log(TileBundleContainingTileAt(w, t, i, j), <<"TileAt", b, tree, i, j>>)

\* a variant that never looks the bundle up in the twin tiling
CreateBundleForTileAt_NoTwin(w, t, i, j, twin_tiling) ==
  LET key == ComputeTileBundleIndex(i, j)
      created == LeastFree(DOMAIN w.heap)
      w2 == Log([w EXCEPT !.heap = (created :> NewTileBundle) @@ @],
                <<"CreateTileBundle", key[1] * kTileBundleWidth,
                  key[2] * kTileBundleHeight, created>>)
      w3 == SwapTilesIfRequired(w2, created)
  IN [w3 EXCEPT !.tl[t].tile_bundles = (key :> created) @@ @]

CreateBundleForTileAt(w, t, i, j, twin_tiling) ==
  LET key == ComputeTileBundleIndex(i, j)
      ask_twin == /\ twin_tiling # NoTiling
                  /\ w.tl[t].tiling_data.tile = w.tl[twin_tiling].tiling_data.tile
      twin_bundle == IF ask_twin THEN FindBundle(w, twin_tiling, key) ELSE NULL
      w1 == IF ask_twin THEN TileBundleAt(w, twin_tiling, key) ELSE w
      created == LeastFree(DOMAIN w.heap)
      candidate_bundle == IF twin_bundle # NULL THEN twin_bundle ELSE created
      w2 == IF twin_bundle # NULL THEN w1
            ELSE Log([w1 EXCEPT !.heap = (created :> NewTileBundle) @@ @],
                     <<"CreateTileBundle", key[1] * kTileBundleWidth,
                       key[2] * kTileBundleHeight, created>>)
      w3 == SwapTilesIfRequired(w2, candidate_bundle)
  IN [w3 EXCEPT !.tl[t].tile_bundles = (key :> candidate_bundle) @@ @]

\* a variant that adopts the twin tree's tile whatever the invalidation
CreateTile_IgnoreInvalidation(w, t, tree, i, j, twin_tiling, env) ==
  LET key == ComputeTileBundleIndex(i, j)
      twin_tree == IF tree = ACTIVE_TREE THEN PENDING_TREE ELSE ACTIVE_TREE
      \* from the bundle on: w1 is the world once the bundle is there
      InBundle(w1, bundle, paint_rect) ==
        LET td == w1.tl[t].tiling_data
            tile_rect == Rect(paint_rect.x, paint_rect.y, td.tile.w, td.tile.h)
            candidate_tile == BundleTileAt(w1, bundle, twin_tree, i, j)
            w2 == Log(w1, <<"TileAt", bundle, twin_tree, i, j>>)
            rect == ScaleToEnclosingRect(paint_rect, w1.tl[t].contents_scale[2],
                                         w1.tl[t].contents_scale[1])
            tile == IF <<i, j>> \in env.null_cells THEN NULL ELSE NewTile(w2)
            w3 == Log(w2, <<"CreateTile", t, tile_rect, tile>>)
        IN IF candidate_tile # NULL
             THEN AddTileAt(w2, bundle, tree, i, j, candidate_tile)
             ELSE IF tile # NULL THEN AddTileAt(w3, bundle, tree, i, j, tile) ELSE w3
      WithBundle(w1) ==
        InBundle(w1, FindBundle(w1, t, key),
                 TileBoundsWithBorder(w1.tl[t].tiling_data, i, j))
  IN WithBundle(IF FindBundle(w, t, key) # NULL
                  THEN TileBundleContainingTileAt(w, t, i, j)
                  ELSE CreateBundleForTileAt(w, t, i, j, twin_tiling))

\* env: what the client answers during the operation: invalidation is
\* GetInvalidation(), null_cells the cells for which CreateTile returns NULL
CreateTile(w, t, tree, i, j, twin_tiling, env) ==
  LET key == ComputeTileBundleIndex(i, j)
      twin_tree == IF tree = ACTIVE_TREE THEN PENDING_TREE ELSE ACTIVE_TREE
      \* from the bundle on: w1 is the world once the bundle is there
      InBundle(w1, bundle, paint_rect) ==
        LET td == w1.tl[t].tiling_data
            tile_rect == Rect(paint_rect.x, paint_rect.y, td.tile.w, td.tile.h)
            candidate_tile == BundleTileAt(w1, bundle, twin_tree, i, j)
            w2 == Log(w1, <<"TileAt", bundle, twin_tree, i, j>>)
            rect == ScaleToEnclosingRect(paint_rect, w1.tl[t].contents_scale[2],
                                         w1.tl[t].contents_scale[1])
            tile == IF <<i, j>> \in env.null_cells THEN NULL ELSE NewTile(w2)
            w3 == Log(w2, <<"CreateTile", t, tile_rect, tile>>)
        IN IF candidate_tile # NULL /\ ~RegionIntersects(env.invalidation, rect)
             THEN AddTileAt(w2, bundle, tree, i, j, candidate_tile)
             ELSE IF tile # NULL THEN AddTileAt(w3, bundle, tree, i, j, tile) ELSE w3
      WithBundle(w1) ==
        InBundle(w1, FindBundle(w1, t, key),
                 TileBoundsWithBorder(w1.tl[t].tiling_data, i, j))
  IN WithBundle(IF FindBundle(w, t, key) # NULL
                  THEN TileBundleContainingTileAt(w, t, i, j)
                  ELSE CreateBundleForTileAt(w, t, i, j, twin_tiling))

\* the value RemoveTile(tree, i, j) returns
RemoveTileResult(w, t, tree, i, j) ==
  LET b == FindBundle(w, t, ComputeTileBundleIndex(i, j))
  IN b # NULL /\ BundleTileAt(w, b, tree, i, j) # NULL

\* a variant that empties the cell's slot of both trees
RemoveTile_BothTrees(w, t, tree, i, j) ==
  LET b == FindBundle(w, t, ComputeTileBundleIndex(i, j))
      twin_tree == IF tree = ACTIVE_TREE THEN PENDING_TREE ELSE ACTIVE_TREE
  IN IF b = NULL THEN w
     ELSE RemoveTileAt(RemoveTileAt(SwapTilesIfRequired(w, b), b, twin_tree, i, j),
                       b, tree, i, j)

RemoveTile(w, t, tree, i, j) ==
  LET b == FindBundle(w, t, ComputeTileBundleIndex(i, j))
  IN IF b = NULL THEN w
     ELSE RemoveTileAt(SwapTilesIfRequired(w, b), b, tree, i, j)

RemoveBundleContainingTileAtIfEmpty(w, t, i, j) ==
  LET key == ComputeTileBundleIndex(i, j)
      b == FindBundle(w, t, key)
      w1 == Log(w, <<"IsEmpty", b>>)
  IN IF b = NULL THEN w
     ELSE IF BundleIsEmpty(w, b)
       THEN Release([w1 EXCEPT !.tl[t].tile_bundles =
                       [k \in (DOMAIN @) \ {key} |-> @[k]]])
       ELSE w1

\* Reset(): the live rect and the bundle map are cleared
Reset(w, t) ==
  Release([w EXCEPT !.tl[t].live_tiles_rect = EmptyRect,
                    !.tl[t].tile_bundles = <<>>])

(***************************************************************************)
(* PictureLayerTiling: the live rect.                                      *)
(***************************************************************************)
\* the test of a TilingData iterator that stands at the k-th of its cells:
\* an iterator over a grid without tiles is done from the start
IteratorValid(w, t, cells, k) ==
  /\ k <= Len(cells)
  /\ num_tiles_x(w.tl[t].tiling_data) > 0
  /\ num_tiles_y(w.tl[t].tiling_data) > 0

\* the first loop of SetLiveTilesRect, from the k-th cell on
RECURSIVE RemoveLoop(_, _, _, _)
RemoveLoop(w, t, cells, k) ==
  IF ~IteratorValid(w, t, cells, k) THEN w
  ELSE LET tile_x == cells[k][1]
           tile_y == cells[k][2]
           w1 == RemoveTile(w, t, w.tl[t].current_tree, tile_x, tile_y)
       IN RemoveLoop(RemoveBundleContainingTileAtIfEmpty(w1, t, tile_x, tile_y),
                     t, cells, k + 1)

\* a variant of the loop that ends at the first cell the client has no tile
\* for
RECURSIVE CreateLoop_StopAtNull(_, _, _, _, _, _, _)
CreateLoop_StopAtNull(w, t, tree, cells, k, twin_tiling, env) ==
  IF ~IteratorValid(w, t, cells, k) THEN w
  ELSE IF cells[k] \in env.null_cells THEN w
  ELSE CreateLoop_StopAtNull(
         CreateTile(w, t, tree, cells[k][1], cells[k][2], twin_tiling, env),
         t, tree, cells, k + 1, twin_tiling, env)

\* a loop calling CreateTile(tree, ...) on each cell, from the k-th on
RECURSIVE CreateLoop(_, _, _, _, _, _, _)
CreateLoop(w, t, tree, cells, k, twin_tiling, env) ==
  IF ~IteratorValid(w, t, cells, k) THEN w
  ELSE CreateLoop(CreateTile(w, t, tree, cells[k][1], cells[k][2], twin_tiling, env),
                  t, tree, cells, k + 1, twin_tiling, env)

\* client_->GetTwinTiling(this): the other tiling, while it exists
GetTwinTiling(w, t) ==
  LET other == IF t = "A" THEN "B" ELSE "A"
  IN IF w.tl[other].alive THEN other ELSE NoTiling

\* the call of client_->GetTwinTiling(this)
AskTwinTiling(w, t) == Log(w, <<"GetTwinTiling", t>>)

\* a variant whose first loop removes the tiles of the whole old live rect
SetLiveTilesRect_RemoveAll(w, t, new_live_tiles_rect, env) ==
  LET td == w.tl[t].tiling_data
      live == w.tl[t].live_tiles_rect
      \* the second loop: w1 is the world the first loop leaves
      CreatePass(w1) ==
        IF IsEmpty(new_live_tiles_rect) THEN w1
        ELSE CreateLoop(AskTwinTiling(w1, t), t, w.tl[t].current_tree,
                        DifferenceIteratorCells(td, new_live_tiles_rect, live), 1,
                        GetTwinTiling(w, t), env)
  IN IF live = new_live_tiles_rect THEN w
     ELSE [CreatePass(RemoveLoop(w, t, IteratorCells(td, live), 1))
             EXCEPT !.tl[t].live_tiles_rect = new_live_tiles_rect]

SetLiveTilesRect(w, t, new_live_tiles_rect, env) ==
  LET td == w.tl[t].tiling_data
      live == w.tl[t].live_tiles_rect
      \* the second loop: w1 is the world the first loop leaves
      CreatePass(w1) ==
        IF IsEmpty(new_live_tiles_rect) THEN w1
        ELSE CreateLoop(AskTwinTiling(w1, t), t, w.tl[t].current_tree,
                        DifferenceIteratorCells(td, new_live_tiles_rect, live), 1,
                        GetTwinTiling(w, t), env)
  IN IF live = new_live_tiles_rect THEN w
     ELSE [CreatePass(RemoveLoop(w, t, DifferenceIteratorCells(
                                         td, live, new_live_tiles_rect), 1))
             EXCEPT !.tl[t].live_tiles_rect = new_live_tiles_rect]

\* a variant that creates a tile for every cell, occupied or not
RECURSIVE CreateMissingLoop_EveryCell(_, _, _, _, _, _)
CreateMissingLoop_EveryCell(w, t, cells, k, twin_tiling, env) ==
  IF ~IteratorValid(w, t, cells, k) THEN w
  ELSE LET tile_x == cells[k][1]
           tile_y == cells[k][2]
           w1 == TileAt(w, t, PENDING_TREE, tile_x, tile_y)
       IN CreateMissingLoop_EveryCell(
            CreateTile(w1, t, PENDING_TREE, tile_x, tile_y, twin_tiling, env),
            t, cells, k + 1, twin_tiling, env)

\* the loop of CreateMissingTilesInLiveTilesRect, from the k-th cell on
RECURSIVE CreateMissingLoop(_, _, _, _, _, _)
CreateMissingLoop(w, t, cells, k, twin_tiling, env) ==
  IF ~IteratorValid(w, t, cells, k) THEN w
  ELSE LET tile_x == cells[k][1]
           tile_y == cells[k][2]
           tile == TileAtResult(w, t, PENDING_TREE, tile_x, tile_y)
           w1 == TileAt(w, t, PENDING_TREE, tile_x, tile_y)
       IN CreateMissingLoop(
            IF tile # NULL THEN w1
            ELSE CreateTile(w1, t, PENDING_TREE, tile_x, tile_y, twin_tiling, env),
            t, cells, k + 1, twin_tiling, env)

CreateMissingTilesInLiveTilesRect(w, t, env) ==
  CreateMissingLoop(AskTwinTiling(w, t), t,
                    IteratorCells(w.tl[t].tiling_data, w.tl[t].live_tiles_rect), 1,
                    GetTwinTiling(w, t), env)

\* a variant that keeps the key of every cell it visits
RECURSIVE InvalidateCells_AllKeys(_, _, _, _)
InvalidateCells_AllKeys(acc, t, cells, k) ==
  IF ~IteratorValid(acc.w, t, cells, k) THEN acc
  ELSE LET tile_x == cells[k][1]
           tile_y == cells[k][2]
       IN InvalidateCells_AllKeys(
            [w |-> RemoveTile(acc.w, t, PENDING_TREE, tile_x, tile_y),
             new_tile_keys |-> Append(acc.new_tile_keys, <<tile_x, tile_y>>)],
            t, cells, k + 1)

\* the inner loop of Invalidate over the cells of one rectangle: acc is
\* [w, new_tile_keys]
RECURSIVE InvalidateCells(_, _, _, _)
InvalidateCells(acc, t, cells, k) ==
  IF ~IteratorValid(acc.w, t, cells, k) THEN acc
  ELSE LET tile_x == cells[k][1]
           tile_y == cells[k][2]
           deleted == RemoveTileResult(acc.w, t, PENDING_TREE, tile_x, tile_y)
       IN InvalidateCells(
            [w |-> RemoveTile(acc.w, t, PENDING_TREE, tile_x, tile_y),
             new_tile_keys |-> IF deleted
                                 THEN Append(acc.new_tile_keys, <<tile_x, tile_y>>)
                                 ELSE acc.new_tile_keys],
            t, cells, k + 1)

\* the outer loop of Invalidate over the rectangles of the region
RECURSIVE InvalidateRects(_, _, _, _)
InvalidateRects(acc, t, layer_region, k) ==
  IF k > Len(layer_region) THEN acc
  ELSE LET layer_rect == layer_region[k]
           content_rect ==
             IntersectRects(
               ScaleToEnclosingRect(layer_rect, acc.w.tl[t].contents_scale[1],
                                    acc.w.tl[t].contents_scale[2]),
               acc.w.tl[t].live_tiles_rect)
       IN InvalidateRects(
            IF IsEmpty(content_rect) THEN acc
            ELSE InvalidateCells(acc, t,
                   IteratorCells(acc.w.tl[t].tiling_data, content_rect), 1),
            t, layer_region, k + 1)

\* a variant that invalidates the whole layer whatever the region
Invalidate_WholeLayer(w, t, layer_region, env) ==
  LET Recreate(removed) ==
        CreateLoop(AskTwinTiling(removed.w, t), t, PENDING_TREE,
                   removed.new_tile_keys, 1, GetTwinTiling(w, t), env)
  IN Recreate(InvalidateRects([w |-> w, new_tile_keys |-> <<>>], t,
                              <<RectOfSize(w.tl[t].layer_bounds)>>, 1))

\* a variant that asks for the twin tiling before it removes the tiles
Invalidate_TwinFirst(w, t, layer_region, env) ==
  LET Recreate(removed) ==
        CreateLoop(removed.w, t, PENDING_TREE,
                   removed.new_tile_keys, 1, GetTwinTiling(w, t), env)
  IN Recreate(InvalidateRects([w |-> AskTwinTiling(w, t), new_tile_keys |-> <<>>], t,
                              layer_region, 1))

Invalidate(w, t, layer_region, env) ==
  LET Recreate(removed) ==
        CreateLoop(AskTwinTiling(removed.w, t), t, PENDING_TREE,
                   removed.new_tile_keys, 1, GetTwinTiling(w, t), env)
  IN Recreate(InvalidateRects([w |-> w, new_tile_keys |-> <<>>], t, layer_region, 1))

\* client_->CalculateTileSize(content_bounds): a deterministic choice of the
\* client, here by the width of the content
CalculateTileSize(content_bounds) ==
  IF content_bounds.w > 256 THEN Size(256, 256)
  ELSE IF content_bounds.w > 8 THEN Size(6, 4)
  ELSE Size(4, 4)

\* a variant that invalidates the whole layer when the bounds change
SetLayerBounds_WholeLayer(w, t, layer_bounds, env) ==
  LET old_layer_bounds == w.tl[t].layer_bounds
      content_bounds == ToCeiledScaledSize(layer_bounds, w.tl[t].contents_scale[1],
                                           w.tl[t].contents_scale[2])
      tile_size == CalculateTileSize(content_bounds)
      w0 == [w EXCEPT !.tl[t].layer_bounds = layer_bounds]
      resized == [w0 EXCEPT
                    !.tl[t].tiling_data = TilingData(content_bounds, tile_size),
                    !.tl[t].bundle_tiling_data =
                       TilingData(content_bounds, ComputeBundleTextureSize(tile_size))]
      bounded_live_tiles_rect ==
        IntersectRects(w.tl[t].live_tiles_rect, RectOfSize(content_bounds))
      w1 == SetLiveTilesRect(w0, t, bounded_live_tiles_rect, env)
      w2 == [w1 EXCEPT !.tl[t].tiling_data.total = content_bounds,
                       !.tl[t].bundle_tiling_data.total = content_bounds]
  IN IF old_layer_bounds = layer_bounds THEN w
     ELSE IF tile_size # w.tl[t].tiling_data.tile THEN Reset(resized, t)
     ELSE Invalidate(w2, t, <<RectOfSize(layer_bounds)>>, env)

\* a variant that keeps the live rect as it is when the bounds change
SetLayerBounds_Unbounded(w, t, layer_bounds, env) ==
  LET old_layer_bounds == w.tl[t].layer_bounds
      content_bounds == ToCeiledScaledSize(layer_bounds, w.tl[t].contents_scale[1],
                                           w.tl[t].contents_scale[2])
      tile_size == CalculateTileSize(content_bounds)
      w0 == [w EXCEPT !.tl[t].layer_bounds = layer_bounds]
      resized == [w0 EXCEPT
                    !.tl[t].tiling_data = TilingData(content_bounds, tile_size),
                    !.tl[t].bundle_tiling_data =
                       TilingData(content_bounds, ComputeBundleTextureSize(tile_size))]
      w2 == [w0 EXCEPT !.tl[t].tiling_data.total = content_bounds,
                       !.tl[t].bundle_tiling_data.total = content_bounds]
      layer_region == RegionSubtract(RectOfSize(layer_bounds), RectOfSize(old_layer_bounds))
  IN IF old_layer_bounds = layer_bounds THEN w
     ELSE IF tile_size # w.tl[t].tiling_data.tile THEN Reset(resized, t)
     ELSE Invalidate(w2, t, layer_region, env)

\* a variant that keeps the bundles and the live rect when the tile size changes
SetLayerBounds_NoReset(w, t, layer_bounds, env) ==
  LET old_layer_bounds == w.tl[t].layer_bounds
      content_bounds == ToCeiledScaledSize(layer_bounds, w.tl[t].contents_scale[1],
                                           w.tl[t].contents_scale[2])
      tile_size == CalculateTileSize(content_bounds)
      w0 == [w EXCEPT !.tl[t].layer_bounds = layer_bounds]
      resized == [w0 EXCEPT
                    !.tl[t].tiling_data = TilingData(content_bounds, tile_size),
                    !.tl[t].bundle_tiling_data =
                       TilingData(content_bounds, ComputeBundleTextureSize(tile_size))]
      bounded_live_tiles_rect ==
        IntersectRects(w.tl[t].live_tiles_rect, RectOfSize(content_bounds))
      w1 == SetLiveTilesRect(w0, t, bounded_live_tiles_rect, env)
      w2 == [w1 EXCEPT !.tl[t].tiling_data.total = content_bounds,
                       !.tl[t].bundle_tiling_data.total = content_bounds]
      layer_region == RegionSubtract(RectOfSize(layer_bounds), RectOfSize(old_layer_bounds))
  IN IF old_layer_bounds = layer_bounds THEN w
     ELSE IF tile_size # w.tl[t].tiling_data.tile THEN resized
     ELSE Invalidate(w2, t, layer_region, env)

SetLayerBounds(w, t, layer_bounds, env) ==
  LET old_layer_bounds == w.tl[t].layer_bounds
      content_bounds == ToCeiledScaledSize(layer_bounds, w.tl[t].contents_scale[1],
                                           w.tl[t].contents_scale[2])
      tile_size == CalculateTileSize(content_bounds)
      w0 == [w EXCEPT !.tl[t].layer_bounds = layer_bounds]
      resized == [w0 EXCEPT
                    !.tl[t].tiling_data = TilingData(content_bounds, tile_size),
                    !.tl[t].bundle_tiling_data =
                       TilingData(content_bounds, ComputeBundleTextureSize(tile_size))]
      bounded_live_tiles_rect ==
        IntersectRects(w.tl[t].live_tiles_rect, RectOfSize(content_bounds))
      w1 == SetLiveTilesRect(w0, t, bounded_live_tiles_rect, env)
      w2 == [w1 EXCEPT !.tl[t].tiling_data.total = content_bounds,
                       !.tl[t].bundle_tiling_data.total = content_bounds]
      layer_region == RegionSubtract(RectOfSize(layer_bounds), RectOfSize(old_layer_bounds))
  IN IF old_layer_bounds = layer_bounds THEN w
     ELSE IF tile_size # w.tl[t].tiling_data.tile THEN Reset(resized, t)
     ELSE Invalidate(w2, t, layer_region, env)

(***************************************************************************)
(* PictureLayerTiling: tree transitions.                                   *)
(***************************************************************************)
RECURSIVE RecycleLoop(_, _, _, _, _)
RecycleLoop(w, t, keys, k, env) ==
  IF k > Len(keys) THEN w
  ELSE RecycleLoop(BundleDidBecomeRecycled(w, w.tl[t].tile_bundles[keys[k]], env.drop),
                   t, keys, k + 1, env)

\* a variant that leaves current_tree_ as it is
DidBecomeRecycled_KeepTree(w, t, env) ==
  RecycleLoop(w, t, MapOrder(DOMAIN w.tl[t].tile_bundles), 1, env)

DidBecomeRecycled(w, t, env) ==
  LET w1 == RecycleLoop(w, t, MapOrder(DOMAIN w.tl[t].tile_bundles), 1, env)
  IN [w1 EXCEPT !.tl[t].current_tree = PENDING_TREE]

\* client_->UpdatePile(tile) for each tile of the sequence, from the k-th on;
\* the event keeps the value current_tree_ has while the client runs
RECURSIVE UpdatePileLoop(_, _, _, _)
UpdatePileLoop(w, t, tiles, k) ==
  IF k > Len(tiles) THEN w
  ELSE UpdatePileLoop(Log(w, <<"UpdatePile", tiles[k], w.tl[t].current_tree>>),
                      t, tiles, k + 1)

RECURSIVE ActivateLoop(_, _, _, _)
ActivateLoop(w, t, keys, k) ==
  IF k > Len(keys) THEN w
  ELSE LET b == w.tl[t].tile_bundles[keys[k]]
           w1 == BundleIterator(BundleDidBecomeActive(w, b), b, ACTIVE_TREE)
       IN ActivateLoop(UpdatePileLoop(w1, t, BundleIteratorTiles(w1, b, ACTIVE_TREE), 1),
                       t, keys, k + 1)

\* a variant that sets current_tree_ before the bundles are processed
DidBecomeActive_TreeFirst(w, t) ==
  ActivateLoop([w EXCEPT !.tl[t].current_tree = ACTIVE_TREE], t,
               MapOrder(DOMAIN w.tl[t].tile_bundles), 1)

DidBecomeActive(w, t) ==
  LET w1 == ActivateLoop(w, t, MapOrder(DOMAIN w.tl[t].tile_bundles), 1)
  IN [w1 EXCEPT !.tl[t].current_tree = ACTIVE_TREE]

RECURSIVE CurrentPileLoop(_, _, _, _)
CurrentPileLoop(w, t, keys, k) ==
  IF k > Len(keys) THEN w
  ELSE LET b == w.tl[t].tile_bundles[keys[k]]
           w1 == BundleIterator(w, b, PENDING_TREE)
       IN CurrentPileLoop(
            UpdatePileLoop(w1, t, BundleIteratorTiles(w1, b, PENDING_TREE), 1),
            t, keys, k + 1)

\* a variant that goes through the tree transition instead
UpdateTilesToCurrentPile_Activating(w, t) == DidBecomeActive(w, t)

UpdateTilesToCurrentPile(w, t) ==
  CurrentPileLoop(w, t, MapOrder(DOMAIN w.tl[t].tile_bundles), 1)

\* tile->GPUMemoryUsageInBytes() for each tile of the sequence, from the k-th on
RECURSIVE TileMemoryLoop(_, _, _)
TileMemoryLoop(w, tiles, k) ==
  IF k > Len(tiles) THEN w
  ELSE TileMemoryLoop(Log(w, <<"GPUMemoryUsageInBytes", tiles[k]>>), tiles, k + 1)

RECURSIVE MemoryLoop(_, _, _, _)
MemoryLoop(w, t, keys, k) ==
  IF k > Len(keys) THEN w
  ELSE LET b == w.tl[t].tile_bundles[keys[k]]
           w1 == BundleIterator(w, b, "BOTH_TREES")
       IN MemoryLoop(TileMemoryLoop(w1, BundleIteratorAllTiles(w1, b), 1),
                     t, keys, k + 1)

\* GPUMemoryUsageInBytes(): every tile of every bundle is asked for its size
GPUMemoryUsageInBytes(w, t) ==
  MemoryLoop(w, t, MapOrder(DOMAIN w.tl[t].tile_bundles), 1)

(***************************************************************************)
(* The rectangle expansion.                                                *)
(***************************************************************************)
\* the largest k in lo..hi with k * k <= n, given lo * lo <= n < (hi+1)^2
RECURSIVE SqrtSearch(_, _, _)
SqrtSearch(n, lo, hi) ==
  IF lo >= hi THEN lo
  ELSE LET mid == (lo + hi + 1) \div 2
       IN IF mid * mid <= n THEN SqrtSearch(n, mid, hi) ELSE SqrtSearch(n, lo, mid - 1)

\* static_cast<int>(std::sqrt(n)) for n >= 0
IntSqrt(n) == SqrtSearch(n, 0, IF n < 46340 THEN n ELSE 46340)

\* the value static_cast<int>(std::sqrt(n)) may take when n < 0 (NaN)
NanToInt == -2147483647 - 1

\* a variant whose delta has the opposite sign
ComputeExpansionDelta_Inward(num_x_edges, num_y_edges, width, height, target_area) ==
  LET a == num_y_edges * num_x_edges
      b == num_y_edges * width + num_x_edges * height
      c == width * height - target_area
      disc == b * b - 4 * a * c
  IN IF a = 0 THEN -Quot(-c, b)
     ELSE -Quot(-b + (IF disc >= 0 THEN IntSqrt(disc) ELSE NanToInt), 2 * a)

\* a variant that returns twice the delta
ComputeExpansionDelta_Twice(num_x_edges, num_y_edges, width, height, target_area) ==
  LET a == num_y_edges * num_x_edges
      b == num_y_edges * width + num_x_edges * height
      c == width * height - target_area
      disc == b * b - 4 * a * c
  IN IF a = 0 THEN 2 * Quot(-c, b)
     ELSE 2 * Quot(-b + (IF disc >= 0 THEN IntSqrt(disc) ELSE NanToInt), 2 * a)

\* a variant that rounds the delta up
ComputeExpansionDelta_RoundUp(num_x_edges, num_y_edges, width, height, target_area) ==
  LET a == num_y_edges * num_x_edges
      b == num_y_edges * width + num_x_edges * height
      c == width * height - target_area
      disc == b * b - 4 * a * c
  IN IF a = 0 THEN Quot(-c, b) + 1
     ELSE Quot(-b + (IF disc >= 0 THEN IntSqrt(disc) ELSE NanToInt), 2 * a) + 1

ComputeExpansionDelta(num_x_edges, num_y_edges, width, height, target_area) ==
  LET a == num_y_edges * num_x_edges
      b == num_y_edges * width + num_x_edges * height
      c == width * height - target_area
      disc == b * b - 4 * a * c
  IN IF a = 0 THEN Quot(-c, b)
     ELSE Quot(-b + (IF disc >= 0 THEN IntSqrt(disc) ELSE NanToInt), 2 * a)

\* RectExpansionCache(): empty rectangles and previous_target(0)
NewRectExpansionCache ==
  [previous_start |-> EmptyRect, previous_bounds |-> EmptyRect,
   previous_target |-> 0, previous_result |-> EmptyRect]

\* std::swap(events[p], events[q]) when events[p] is farther than events[q]
SwapIfFarther(events, p, q) ==
  IF events[p].distance > events[q].distance
    THEN [events EXCEPT ![p] = events[q], ![q] = events[p]]
    ELSE events

\* a variant that does not clamp delta to the distance of the event
ExpandStep_NoClamp(st, k, target_area) ==
  LET event == st.events[k]
      moves(edge) == Cardinality({i \in k..4 : st.events[i].edge = edge})
      Clamped(delta) == delta
      Apply(delta) ==
        [origin_x |-> st.origin_x - delta * moves("LEFT"),
         origin_y |-> st.origin_y - delta * moves("BOTTOM"),
         width |-> st.width + delta * (moves("LEFT") + moves("RIGHT")),
         height |-> st.height + delta * (moves("BOTTOM") + moves("TOP")),
         num_x_edges |-> st.num_x_edges - (IF event.edge \in {"LEFT", "RIGHT"} THEN 1 ELSE 0),
         num_y_edges |-> st.num_y_edges - (IF event.edge \in {"BOTTOM", "TOP"} THEN 1 ELSE 0),
         events |-> [i \in 1..4 |->
                       IF i >= k THEN [st.events[i] EXCEPT !.distance = @ - delta]
                       ELSE st.events[i]],
         \* event refers to events[event_index], whose distance the loop above
         \* has already reduced by delta
         done |-> delta < event.distance - delta]
  IN Apply(Clamped(ComputeExpansionDelta(st.num_x_edges, st.num_y_edges,
                                         st.width, st.height, target_area)))

\* the body of the event loop for event_index k (1..4); st is
\* [origin_x, origin_y, width, height, num_x_edges, num_y_edges, events, done]
ExpandStep(st, k, target_area) ==
  LET event == st.events[k]
      moves(edge) == Cardinality({i \in k..4 : st.events[i].edge = edge})
      \* delta clamped to the distance of the event
      Clamped(delta) == IF delta > event.distance THEN event.distance ELSE delta
      Apply(delta) ==
        [origin_x |-> st.origin_x - delta * moves("LEFT"),
         origin_y |-> st.origin_y - delta * moves("BOTTOM"),
         width |-> st.width + delta * (moves("LEFT") + moves("RIGHT")),
         height |-> st.height + delta * (moves("BOTTOM") + moves("TOP")),
         num_x_edges |-> st.num_x_edges - (IF event.edge \in {"LEFT", "RIGHT"} THEN 1 ELSE 0),
         num_y_edges |-> st.num_y_edges - (IF event.edge \in {"BOTTOM", "TOP"} THEN 1 ELSE 0),
         events |-> [i \in 1..4 |->
                       IF i >= k THEN [st.events[i] EXCEPT !.distance = @ - delta]
                       ELSE st.events[i]],
         \* event refers to events[event_index], whose distance the loop above
         \* has already reduced by delta
         done |-> delta < event.distance - delta]
  IN Apply(Clamped(ComputeExpansionDelta(st.num_x_edges, st.num_y_edges,
                                         st.width, st.height, target_area)))

RECURSIVE ExpandLoop(_, _, _)
ExpandLoop(st, k, target_area) ==
  IF k > 4 \/ st.done THEN st
  ELSE ExpandLoop(ExpandStep(st, k, target_area), k + 1, target_area)

\* the sorted event list and the loop state the expansion starts from
ExpandStart(rect, bounding_rect) ==
  LET e0 == <<[edge |-> "BOTTOM", distance |-> rect.y - bounding_rect.y],
              [edge |-> "TOP", distance |-> Bottom(bounding_rect) - Bottom(rect)],
              [edge |-> "LEFT", distance |-> rect.x - bounding_rect.x],
              [edge |-> "RIGHT", distance |-> Right(bounding_rect) - Right(rect)]>>
      e1 == SwapIfFarther(e0, 1, 2)
      e2 == SwapIfFarther(e1, 3, 4)
      e3 == SwapIfFarther(e2, 1, 3)
      e4 == SwapIfFarther(e3, 2, 4)
      e5 == SwapIfFarther(e4, 2, 3)
  IN [origin_x |-> rect.x, origin_y |-> rect.y, width |-> rect.w, height |-> rect.h,
      num_x_edges |-> 2, num_y_edges |-> 2, events |-> e5, done |-> FALSE]

\* a variant that gives back the starting rectangle when the grown rectangle
\* misses the bounding rectangle
ExpandUncached_FarStart(starting_rect, target_area, bounding_rect) ==
  LET RectOf(st) == Rect(st.origin_x, st.origin_y, st.width, st.height)
      Bounded(delta, expanded_starting_rect, rect) ==
        IF IsEmpty(rect) THEN starting_rect
        ELSE IF delta >= 0 /\ rect = expanded_starting_rect THEN rect
        ELSE RectOf(ExpandLoop(ExpandStart(rect, bounding_rect), 1, target_area))
      Expanded(delta, expanded_starting_rect) ==
        Bounded(delta, expanded_starting_rect,
                IntersectRects(expanded_starting_rect, bounding_rect))
      Started(delta) ==
        Expanded(delta, IF delta > 0
                          THEN Inset(starting_rect, -delta, -delta, -delta, -delta)
                          ELSE starting_rect)
  IN Started(ComputeExpansionDelta(2, 2, starting_rect.w, starting_rect.h, target_area))

\* the rectangle computed when the memo does not answer
ExpandUncached(starting_rect, target_area, bounding_rect) ==
  LET RectOf(st) == Rect(st.origin_x, st.origin_y, st.width, st.height)
      Bounded(delta, expanded_starting_rect, rect) ==
        IF IsEmpty(rect) THEN rect
        ELSE IF delta >= 0 /\ rect = expanded_starting_rect THEN rect
        ELSE RectOf(ExpandLoop(ExpandStart(rect, bounding_rect), 1, target_area))
      Expanded(delta, expanded_starting_rect) ==
        Bounded(delta, expanded_starting_rect,
                IntersectRects(expanded_starting_rect, bounding_rect))
      Started(delta) ==
        Expanded(delta, IF delta > 0
                          THEN Inset(starting_rect, -delta, -delta, -delta, -delta)
                          ELSE starting_rect)
  IN Started(ComputeExpansionDelta(2, 2, starting_rect.w, starting_rect.h, target_area))

\* a variant whose memo answers whatever the target area
ExpandRectEquallyToAreaBoundedBy_AnyTarget(starting_rect, target_area, bounding_rect, cache) ==
  IF IsEmpty(starting_rect) THEN [result |-> starting_rect, cache |-> cache]
  ELSE IF /\ cache.previous_start = starting_rect
          /\ cache.previous_bounds = bounding_rect
    THEN [result |-> cache.previous_result, cache |-> cache]
  ELSE LET Remembered(result) ==
             [result |-> result,
              cache |-> [previous_start |-> starting_rect,
                         previous_bounds |-> bounding_rect,
                         previous_target |-> target_area,
                         previous_result |-> result]]
       IN Remembered(ExpandUncached(starting_rect, target_area, bounding_rect))

\* ExpandRectEquallyToAreaBoundedBy: [result, cache], cache the memo after
ExpandRectEquallyToAreaBoundedBy(starting_rect, target_area, bounding_rect, cache) ==
  IF IsEmpty(starting_rect) THEN [result |-> starting_rect, cache |-> cache]
  ELSE IF /\ cache.previous_start = starting_rect
          /\ cache.previous_bounds = bounding_rect
          /\ cache.previous_target = target_area
    THEN [result |-> cache.previous_result, cache |-> cache]
  ELSE LET Remembered(result) ==
             [result |-> result,
              cache |-> [previous_start |-> starting_rect,
                         previous_bounds |-> bounding_rect,
                         previous_target |-> target_area,
                         previous_result |-> result]]
       IN Remembered(ExpandUncached(starting_rect, target_area, bounding_rect))

(***************************************************************************)
(* PictureLayerTiling: the priority update.                                *)
(***************************************************************************)
\* has_ever_been_updated() and NeedsUpdateForFrameAtTime(time)
has_ever_been_updated(w, t) == w.tl[t].last_impl_frame_time_in_seconds # 0
\* a variant that asks for an update at every frame time
NeedsUpdateForFrameAtTime_Always(w, t, frame_time) == TRUE
NeedsUpdateForFrameAtTime(w, t, frame_time) ==
  frame_time # w.tl[t].last_impl_frame_time_in_seconds

\* gfx::RectF::ManhattanInternalDistance in whole pixels
ManhattanInternalDistance(a, b) ==
  LET c == IF IsEmpty(a) THEN b
           ELSE IF IsEmpty(b) THEN a
           ELSE Rect(Min(a.x, b.x), Min(a.y, b.y),
                     Max(Right(a), Right(b)) - Min(a.x, b.x),
                     Max(Bottom(a), Bottom(b)) - Min(a.y, b.y))
  IN Max(0, c.w - a.w - b.w) + Max(0, c.h - a.h - b.h)

\* set_resolution(resolution)
set_resolution(w, t, resolution) == [w EXCEPT !.tl[t].resolution = resolution]

\* a variant of the loop that writes the record of both trees
RECURSIVE PriorityLoop_BothTrees(_, _, _, _, _, _)
PriorityLoop_BothTrees(w, t, tree, cells, k, view_rect) ==
  IF k > Len(cells) THEN w
  ELSE LET bundle_x == cells[k][1]
           bundle_y == cells[k][2]
           b == FindBundle(w, t, cells[k])
           w1 == TileBundleAt(w, t, cells[k])
           bundle_bounds == TileBounds(w.tl[t].bundle_tiling_data, bundle_x, bundle_y)
           priority == TilePriority(w.tl[t].resolution,
                                    ManhattanInternalDistance(bundle_bounds, view_rect))
       IN PriorityLoop_BothTrees(
            IF b = NULL THEN w1
            ELSE BundleSetPriority(BundleSetPriority(w1, b, ACTIVE_TREE, priority),
                                   b, PENDING_TREE, priority),
            t, tree, cells, k + 1, view_rect)

\* the loop over the bundles of the interest rect, from the k-th cell on; the
\* screen rect of a bundle is its bounds (identity transforms, equal scales)
RECURSIVE PriorityLoop(_, _, _, _, _, _)
PriorityLoop(w, t, tree, cells, k, view_rect) ==
  IF k > Len(cells) THEN w
  ELSE LET bundle_x == cells[k][1]
           bundle_y == cells[k][2]
           b == FindBundle(w, t, cells[k])
           w1 == TileBundleAt(w, t, cells[k])
           bundle_bounds == TileBounds(w.tl[t].bundle_tiling_data, bundle_x, bundle_y)
           distance_to_visible_in_pixels ==
             ManhattanInternalDistance(bundle_bounds, view_rect)
       IN PriorityLoop(
            IF b = NULL THEN w1
            ELSE BundleSetPriority(w1, b, tree,
                   TilePriority(w.tl[t].resolution, distance_to_visible_in_pixels)),
            t, tree, cells, k + 1, view_rect)

\* a variant that never adopts the tree passed
UpdateTilePriorities_NoAdopt(w, t, in, env) ==
  LET w0 == w
      scale == w.tl[t].contents_scale
      viewport_in_content_space ==
        ScaleToEnclosingRect(in.viewport_in_layer_space, scale[1], scale[2])
      visible_content_rect ==
        ScaleToEnclosingRect(in.visible_layer_rect, scale[1], scale[2])
      tile_size == w.tl[t].tiling_data.tile
      interest_rect_area == in.max_tiles_for_interest_area * tile_size.w * tile_size.h
      starting_rect == IF IsEmpty(visible_content_rect)
                         THEN viewport_in_content_space ELSE visible_content_rect
      \* the loop over the bundles: w2 is the world SetLiveTilesRect leaves
      Prioritized(w2, interest_rect) ==
        PriorityLoop(w2, t, in.tree,
                     IteratorCells(w2.tl[t].bundle_tiling_data, interest_rect), 1,
                     RectOfSize(in.device_viewport))
      Expanded(expansion) ==
        Prioritized(SetLiveTilesRect([w0 EXCEPT !.tl[t].expansion_cache = expansion.cache],
                                     t, expansion.result, env),
                    expansion.result)
      w3 == Expanded(ExpandRectEquallyToAreaBoundedBy(
                       starting_rect, interest_rect_area, ContentRect(w, t),
                       w.tl[t].expansion_cache))
  IN IF ~NeedsUpdateForFrameAtTime(w0, t, in.current_frame_time_in_seconds) THEN w0
     ELSE IF IsEmpty(ContentRect(w0, t))
       THEN [w0 EXCEPT !.tl[t].last_impl_frame_time_in_seconds =
                          in.current_frame_time_in_seconds]
     ELSE [w3 EXCEPT !.tl[t].last_impl_frame_time_in_seconds =
                        in.current_frame_time_in_seconds]

\* a variant that starts the interest rect from the viewport always
UpdateTilePriorities_ViewportStart(w, t, in, env) ==
  LET w0 == IF ~has_ever_been_updated(w, t)
              THEN [w EXCEPT !.tl[t].current_tree = in.tree] ELSE w
      scale == w.tl[t].contents_scale
      viewport_in_content_space ==
        ScaleToEnclosingRect(in.viewport_in_layer_space, scale[1], scale[2])
      visible_content_rect ==
        ScaleToEnclosingRect(in.visible_layer_rect, scale[1], scale[2])
      tile_size == w.tl[t].tiling_data.tile
      interest_rect_area == in.max_tiles_for_interest_area * tile_size.w * tile_size.h
      starting_rect == viewport_in_content_space
      \* the loop over the bundles: w2 is the world SetLiveTilesRect leaves
      Prioritized(w2, interest_rect) ==
        PriorityLoop(w2, t, in.tree,
                     IteratorCells(w2.tl[t].bundle_tiling_data, interest_rect), 1,
                     RectOfSize(in.device_viewport))
      Expanded(expansion) ==
        Prioritized(SetLiveTilesRect([w0 EXCEPT !.tl[t].expansion_cache = expansion.cache],
                                     t, expansion.result, env),
                    expansion.result)
      w3 == Expanded(ExpandRectEquallyToAreaBoundedBy(
                       starting_rect, interest_rect_area, ContentRect(w, t),
                       w.tl[t].expansion_cache))
  IN IF ~NeedsUpdateForFrameAtTime(w0, t, in.current_frame_time_in_seconds) THEN w0
     ELSE IF IsEmpty(ContentRect(w0, t))
       THEN [w0 EXCEPT !.tl[t].last_impl_frame_time_in_seconds =
                          in.current_frame_time_in_seconds]
     ELSE [w3 EXCEPT !.tl[t].last_impl_frame_time_in_seconds =
                        in.current_frame_time_in_seconds]

\* in: [tree, device_viewport, viewport_in_layer_space, visible_layer_rect,
\*      current_frame_time_in_seconds, max_tiles_for_interest_area]
UpdateTilePriorities(w, t, in, env) ==
  LET w0 == IF ~has_ever_been_updated(w, t)
              THEN [w EXCEPT !.tl[t].current_tree = in.tree] ELSE w
      scale == w.tl[t].contents_scale
      viewport_in_content_space ==
        ScaleToEnclosingRect(in.viewport_in_layer_space, scale[1], scale[2])
      visible_content_rect ==
        ScaleToEnclosingRect(in.visible_layer_rect, scale[1], scale[2])
      tile_size == w.tl[t].tiling_data.tile
      interest_rect_area == in.max_tiles_for_interest_area * tile_size.w * tile_size.h
      starting_rect == IF IsEmpty(visible_content_rect)
                         THEN viewport_in_content_space ELSE visible_content_rect
      \* the loop over the bundles: w2 is the world SetLiveTilesRect leaves
      Prioritized(w2, interest_rect) ==
        PriorityLoop(w2, t, in.tree,
                     IteratorCells(w2.tl[t].bundle_tiling_data, interest_rect), 1,
                     RectOfSize(in.device_viewport))
      Expanded(expansion) ==
        Prioritized(SetLiveTilesRect([w0 EXCEPT !.tl[t].expansion_cache = expansion.cache],
                                     t, expansion.result, env),
                    expansion.result)
      w3 == Expanded(ExpandRectEquallyToAreaBoundedBy(
                       starting_rect, interest_rect_area, ContentRect(w, t),
                       w.tl[t].expansion_cache))
  IN IF ~NeedsUpdateForFrameAtTime(w0, t, in.current_frame_time_in_seconds) THEN w0
     ELSE IF IsEmpty(ContentRect(w0, t))
       THEN [w0 EXCEPT !.tl[t].last_impl_frame_time_in_seconds =
                          in.current_frame_time_in_seconds]
     ELSE [w3 EXCEPT !.tl[t].last_impl_frame_time_in_seconds =
                        in.current_frame_time_in_seconds]

(***************************************************************************)
(* Construction and destruction.                                           *)
(***************************************************************************)
\* the fields of a tiling that does not exist
NoTilingFields ==
  [alive |-> FALSE, contents_scale |-> <<1, 1>>, layer_bounds |-> Size(0, 0),
   resolution |-> NON_IDEAL_RESOLUTION,
   tiling_data |-> TilingData(Size(0, 0), Size(0, 0)),
   bundle_tiling_data |-> TilingData(Size(0, 0), Size(0, 0)),
   current_tree |-> PENDING_TREE, last_impl_frame_time_in_seconds |-> 0,
   live_tiles_rect |-> EmptyRect, tile_bundles |-> <<>>,
   expansion_cache |-> NewRectExpansionCache]

\* PictureLayerTiling(contents_scale, layer_bounds, client)
PictureLayerTiling(contents_scale, layer_bounds) ==
  LET content_bounds == ToCeiledScaledSize(layer_bounds, contents_scale[1], contents_scale[2])
      tile_size == CalculateTileSize(content_bounds)
  IN [alive |-> TRUE, contents_scale |-> contents_scale, layer_bounds |-> layer_bounds,
      resolution |-> NON_IDEAL_RESOLUTION,
      tiling_data |-> TilingData(content_bounds, tile_size),
      bundle_tiling_data |-> TilingData(content_bounds, ComputeBundleTextureSize(tile_size)),
      current_tree |-> PENDING_TREE, last_impl_frame_time_in_seconds |-> 0,
      live_tiles_rect |-> EmptyRect, tile_bundles |-> <<>>,
      expansion_cache |-> NewRectExpansionCache]

\* a variant that empties every slot of the bundles the tiling holds
DestroyTiling_AllSlots(w, t, env) ==
  LET held == {w.tl[t].tile_bundles[key] : key \in DOMAIN w.tl[t].tile_bundles}
      w1 == [w EXCEPT !.heap = [b \in DOMAIN w.heap |->
                                  IF b \in held THEN [w.heap[b] EXCEPT !.tiles = <<>>]
                                  ELSE w.heap[b]]]
  IN Release([w1 EXCEPT !.tl[t] = NoTilingFields])

\* ~PictureLayerTiling(): the live rect is torn down, then the members go
DestroyTiling(w, t, env) ==
  LET w1 == SetLiveTilesRect(w, t, EmptyRect, env)
  IN Release([w1 EXCEPT !.tl[t] = NoTilingFields])

(***************************************************************************)
(* PictureLayerTiling::CoverageIterator.  A scale is a pair <<num, den>>;  *)
(* yielded is the history of the iterator: the cell and the geometry rect  *)
(* of every position it has stood at.                                      *)
(***************************************************************************)
\* CoverageIterator(): dest_to_content_scale_ is not initialized and never
\* read, because the iterator is finished
NoCoverageIterator ==
  [tiling |-> NoTiling, dest_rect |-> EmptyRect, dest_to_content_scale |-> <<0, 1>>,
   current_tile |-> NULL, tile_i |-> 0, tile_j |-> 0,
   left |-> 0, top |-> 0, right |-> -1, bottom |-> -1, tree |-> PENDING_TREE,
   current_geometry_rect |-> EmptyRect, yielded |-> <<>>]

\* operator bool: the iterator stands at a cell
CoverageIteratorValid(it) == it.tile_j <= it.bottom

\* a variant that leaves the rect where the scaling put it
CurrentGeometryRect_NoSnap(it, td, tile_i, tile_j, first_time, new_row, last_geometry_rect) ==
  LET Snapped(rect, min_left, min_top) ==
        Inset(rect, Max(0, min_left - rect.x), Max(0, min_top - rect.y), 0, 0)
      Clipped(rect) ==
        IF first_time THEN rect
        ELSE IF new_row THEN rect
        ELSE Snapped(rect, rect.x, rect.y)
  IN Clipped(IntersectRects(
               ScaleToEnclosingRect(TileBounds(td, tile_i, tile_j),
                                    it.dest_to_content_scale[2],
                                    it.dest_to_content_scale[1]),
               it.dest_rect))

\* the geometry rect of the cell (tile_i, tile_j) after the rect last_geometry_rect
CurrentGeometryRect(it, td, tile_i, tile_j, first_time, new_row, last_geometry_rect) ==
  LET Snapped(rect, min_left, min_top) ==
        Inset(rect, Max(0, min_left - rect.x), Max(0, min_top - rect.y), 0, 0)
      Clipped(rect) ==
        IF first_time THEN rect
        ELSE IF new_row THEN Snapped(rect, it.dest_rect.x, Bottom(last_geometry_rect))
        ELSE Snapped(rect, Right(last_geometry_rect), last_geometry_rect.y)
  IN Clipped(IntersectRects(
               ScaleToEnclosingRect(TileBounds(td, tile_i, tile_j),
                                    it.dest_to_content_scale[2],
                                    it.dest_to_content_scale[1]),
               it.dest_rect))

\* a variant that wraps to the next row one column early
CoverageIteratorIncrement_EarlyWrap(w, it) ==
  LET At(tile_i, tile_j, first_time, new_row) ==
        IF tile_j > it.bottom
          THEN [w |-> w,
                it |-> [it EXCEPT !.tile_i = tile_i, !.tile_j = tile_j,
                                  !.current_tile = NULL]]
          ELSE LET Stand(rect) ==
                     [w |-> TileAt(w, it.tiling, it.tree, tile_i, tile_j),
                      it |-> [it EXCEPT
                                !.tile_i = tile_i, !.tile_j = tile_j,
                                !.current_tile =
                                   TileAtResult(w, it.tiling, it.tree, tile_i, tile_j),
                                !.current_geometry_rect = rect,
                                !.yielded = Append(@, [i |-> tile_i, j |-> tile_j,
                                                       geometry_rect |-> rect])]]
               IN Stand(CurrentGeometryRect(it, w.tl[it.tiling].tiling_data,
                                            tile_i, tile_j, first_time, new_row,
                                            it.current_geometry_rect))
  IN IF it.tile_j > it.bottom THEN [w |-> w, it |-> it]
     ELSE IF it.tile_i + 1 >= it.right /\ it.tile_i >= it.left
       THEN At(it.left, it.tile_j + 1, it.tile_i < it.left, TRUE)
     ELSE At(it.tile_i + 1, it.tile_j, it.tile_i < it.left, FALSE)

\* operator++: [w, it], the world after the calls and the iterator after
CoverageIteratorIncrement(w, it) ==
  LET At(tile_i, tile_j, first_time, new_row) ==
        IF tile_j > it.bottom
          THEN [w |-> w,
                it |-> [it EXCEPT !.tile_i = tile_i, !.tile_j = tile_j,
                                  !.current_tile = NULL]]
          ELSE LET Stand(rect) ==
                     [w |-> TileAt(w, it.tiling, it.tree, tile_i, tile_j),
                      it |-> [it EXCEPT
                                !.tile_i = tile_i, !.tile_j = tile_j,
                                !.current_tile =
                                   TileAtResult(w, it.tiling, it.tree, tile_i, tile_j),
                                !.current_geometry_rect = rect,
                                !.yielded = Append(@, [i |-> tile_i, j |-> tile_j,
                                                       geometry_rect |-> rect])]]
               IN Stand(CurrentGeometryRect(it, w.tl[it.tiling].tiling_data,
                                            tile_i, tile_j, first_time, new_row,
                                            it.current_geometry_rect))
  IN IF it.tile_j > it.bottom THEN [w |-> w, it |-> it]
     ELSE IF it.tile_i + 1 > it.right
       THEN At(it.left, it.tile_j + 1, it.tile_i < it.left, TRUE)
     ELSE At(it.tile_i + 1, it.tile_j, it.tile_i < it.left, FALSE)

\* a variant whose index range ends in the row it begins in
CoverageIterator_OneRow(w, t, dest_scale, dest_rect) ==
  LET contents_scale == w.tl[t].contents_scale
      td == w.tl[t].tiling_data
      made == [NoCoverageIterator EXCEPT !.tiling = t, !.dest_rect = dest_rect,
                                         !.tree = w.tl[t].current_tree]
      Ranged(it, content_rect) ==
        IF IsEmpty(content_rect) THEN [w |-> w, it |-> it]
        ELSE CoverageIteratorIncrement(
               w, [it EXCEPT !.left = TileXIndexFromSrcCoord(td, content_rect.x),
                             !.top = TileYIndexFromSrcCoord(td, content_rect.y),
                             !.right = TileXIndexFromSrcCoord(td, Right(content_rect) - 1),
                             !.bottom = TileYIndexFromSrcCoord(td, content_rect.y),
                             !.tile_i = TileXIndexFromSrcCoord(td, content_rect.x) - 1,
                             !.tile_j = TileYIndexFromSrcCoord(td, content_rect.y)])
      Scaled(it) ==
        Ranged(it, IntersectRects(
                     ScaleToEnclosingRect(dest_rect, it.dest_to_content_scale[1],
                                          it.dest_to_content_scale[2]),
                     RectOfSize(td.total)))
  IN IF IsEmpty(dest_rect) THEN [w |-> w, it |-> made]
     ELSE Scaled([made EXCEPT !.dest_to_content_scale =
                                 <<contents_scale[1] * dest_scale[2],
                                   contents_scale[2] * dest_scale[1]>>])

\* CoverageIterator(tiling, dest_scale, dest_rect): [w, it]
CoverageIterator(w, t, dest_scale, dest_rect) ==
  LET contents_scale == w.tl[t].contents_scale
      td == w.tl[t].tiling_data
      made == [NoCoverageIterator EXCEPT !.tiling = t, !.dest_rect = dest_rect,
                                         !.tree = w.tl[t].current_tree]
      Ranged(it, content_rect) ==
        IF IsEmpty(content_rect) THEN [w |-> w, it |-> it]
        ELSE CoverageIteratorIncrement(
               w, [it EXCEPT !.left = TileXIndexFromSrcCoord(td, content_rect.x),
                             !.top = TileYIndexFromSrcCoord(td, content_rect.y),
                             !.right = TileXIndexFromSrcCoord(td, Right(content_rect) - 1),
                             !.bottom = TileYIndexFromSrcCoord(td, Bottom(content_rect) - 1),
                             !.tile_i = TileXIndexFromSrcCoord(td, content_rect.x) - 1,
                             !.tile_j = TileYIndexFromSrcCoord(td, content_rect.y)])
      Scaled(it) ==
        Ranged(it, IntersectRects(
                     ScaleToEnclosingRect(dest_rect, it.dest_to_content_scale[1],
                                          it.dest_to_content_scale[2]),
                     RectOfSize(td.total)))
  IN IF IsEmpty(dest_rect) THEN [w |-> w, it |-> made]
     ELSE Scaled([made EXCEPT !.dest_to_content_scale =
                                 <<contents_scale[1] * dest_scale[2],
                                   contents_scale[2] * dest_scale[1]>>])

\* geometry_rect()
geometry_rect(it) == it.current_geometry_rect

(***************************************************************************)
(* The inputs the operations are called with.  An input record P names the *)
(* sets an operation draws from.                                           *)
(***************************************************************************)
\* the device viewport of every priority update
DeviceViewport == Size(4, 3)

\* what the client may answer during one operation
Envs(regions, nulls) == [invalidation : regions, null_cells : nulls, drop : {TRUE}]
NoEnv == [invalidation |-> <<>>, null_cells |-> {}, drop |-> TRUE]

Updates(visibles, frame_times, max_tiles) ==
  [tree : WhichTree, device_viewport : {DeviceViewport},
   viewport_in_layer_space : {Rect(0, 0, 8, 6)},
   visible_layer_rect : visibles,
   current_frame_time_in_seconds : frame_times,
   max_tiles_for_interest_area : max_tiles]

\* the live rect and the tiles of one tiling; contents_scale is 1/2
Inputs ==
  [tilings |-> {"A"},
   scale |-> <<1, 2>>,
   bounds |-> {Size(13, 5)},
   rects |-> {EmptyRect, Rect(0, 0, 3, 2), Rect(2, 0, 5, 3), Rect(4, 1, 3, 2)},
   regions |-> {<<>>, <<Rect(0, 0, 1, 1)>>, <<Rect(8, 0, 6, 6)>>},
   envs |-> Envs({<<>>, <<Rect(0, 0, 6, 6)>>}, {{}}) \cup Envs({<<>>}, {{<<1, 0>>}}),
   updates |-> {}]

\* one tiling and its priority updates
UpdateInputs ==
  [tilings |-> {"A"},
   scale |-> <<1, 2>>,
   bounds |-> {Size(9, 5)},
   rects |-> {EmptyRect, Rect(0, 0, 3, 2), Rect(0, 0, 5, 3)},
   regions |-> {<<>>},
   envs |-> Envs({<<>>}, {{}}),
   updates |-> Updates({EmptyRect, Rect(4, 0, 4, 4)}, 1..MaxFrameTime, {MaxInterestTiles})]

\* one tiling of several bundles whose content is larger than the interest
\* area
InterestInputs ==
  [tilings |-> {"A"},
   scale |-> <<1, 2>>,
   bounds |-> {Size(33, 17)},
   rects |-> {EmptyRect, Rect(0, 0, 17, 9)},
   regions |-> {<<>>},
   envs |-> Envs({<<>>}, {{}}),
   resolutions |-> {HIGH_RESOLUTION},
   updates |-> Updates({EmptyRect, Rect(12, 4, 8, 6)}, {1, MaxFrameTime},
                       {MaxInterestTiles})]

\* one tiling and its layer bounds
BoundsInputs ==
  [tilings |-> {"A"},
   scale |-> <<1, 2>>,
   bounds |-> {Size(9, 5), Size(13, 5), Size(17, 5)},
   rects |-> {EmptyRect, Rect(2, 0, 5, 3)},
   regions |-> {<<Rect(8, 0, 6, 6)>>},
   envs |-> Envs({<<>>}, {{}}),
   updates |-> Updates({Rect(4, 0, 4, 4)}, {1}, {1})]

\* two twin tilings of equal layer bounds
TwinInputs ==
  [tilings |-> {"A", "B"},
   scale |-> <<1, 2>>,
   bounds |-> {Size(9, 5)},
   rects |-> {EmptyRect, Rect(0, 0, 3, 2), Rect(0, 0, 5, 3)},
   regions |-> {<<Rect(0, 0, 1, 1)>>},
   envs |-> Envs({<<>>}, {{}}),
   updates |-> Updates({Rect(4, 0, 4, 4)}, {1}, {1})]

\* a layer of 1000x1000 at contents_scale 1 with tiles of 256x256
ScenarioInputs ==
  [tilings |-> {"A"},
   scale |-> <<1, 1>>,
   bounds |-> {Size(1000, 1000)},
   rects |-> {EmptyRect, Rect(0, 0, 1000, 1000), Rect(0, 0, 300, 300)},
   regions |-> {<<Rect(0, 0, 10, 10)>>, <<Rect(250, 250, 10, 10)>>},
   envs |-> Envs({<<>>}, {{}, {<<1, 1>>}}),
   updates |-> {}]

\* the rectangle expansion called on its own with the memo of one tiling
ExpandInputs ==
  [tilings |-> {"A"},
   scale |-> <<1, 1>>,
   bounds |-> {Size(200, 200)},
   starting_rects |-> {Rect(3, 3, 0, 5), Rect(100, 100, 50, 50), Rect(0, 0, 10, 10),
                       Rect(4, 2, 3, 3), Rect(30, 30, 4, 4), Rect(-5, -5, 8, 8),
                       Rect(180, 50, 40, 20), Rect(0, 7, 10, 10)},
   target_areas |-> {1, 16, 100, 400, 40000},
   bounding_rects |-> {Rect(0, 0, 200, 200), Rect(0, 0, 20, 20), Rect(2, 1, 12, 9),
                       Rect(0, 0, 7, 200)}]

\* tilings of 2x1, 3x3 and 2x2 cells at contents_scale 1/2 and the
\* destination rects and scales of their coverage iterators; a scale is a
\* power of two, so that the float arithmetic of the code is exact
CoverageInputs ==
  [tilings |-> {"A"},
   scale |-> <<1, 2>>,
   bounds |-> {Size(9, 5), Size(13, 13), Size(17, 9)},
   rects |-> {EmptyRect, Rect(0, 0, 5, 3)},
   envs |-> Envs({<<>>}, {{}}),
   dest_scales |-> {<<1, 8>>, <<1, 4>>, <<1, 2>>, <<1, 1>>, <<2, 1>>},
   dest_rects |-> {EmptyRect, Rect(0, 0, 0, 5), Rect(1, 1, 4, 3), Rect(-2, -1, 20, 20),
                   Rect(3, 2, 9, 7), Rect(0, 1, 2, 1), Rect(30, 30, 5, 5)}]

(***************************************************************************)
(* content::StreamTextureProxyImpl (stream_texture_factory_impl.cc) with   *)
(* the message loop it is bound to.  The loop thread runs one thing at a   *)
(* time: a posted task, a notification of the StreamTextureHost, or a call *)
(* of BindToLoop or Release made by code running on the loop.              *)
(***************************************************************************)
LoopThread == "loop"
OtherThread == "other"
Threads == {LoopThread, OtherThread}

\* the pointers BindToLoop is given: its loop and its client
TheLoop == 1
TheClient == 1

\* no proxy: the value of proxy where only tilings are looked at
NoStreamTextureProxy == [exists |-> FALSE]

\* StreamTextureProxyImpl(host): client_(NULL), no loop_, the lock free.
\* alive, deletions, deleted_on and deleted_by say whether, how often, on
\* which thread and by what the object was deleted; host_bound whether
\* host_->BindToCurrentThread ran; tasks and accepting are the queue of the
\* loop and whether it takes tasks; loop_thread is what the loop thread is
\* doing; bind and release are the calls of BindToLoop and Release in
\* progress; client_calls are the calls made into the client; skipped counts
\* the notifications that found client_ cleared; called_before_clear says
\* that a notification called the client while a Release was waiting for the
\* lock; undefined that a deleted proxy was used
NewStreamTextureProxy ==
  [exists |-> TRUE, client_ |-> NULL, loop_ |-> NULL, lock_ |-> "free",
   alive |-> TRUE, deletions |-> 0, deleted_on |-> "none", deleted_by |-> "none",
   host_bound |-> FALSE, tasks |-> <<>>, accepting |-> TRUE,
   loop_thread |-> "idle",
   bind |-> [pc |-> "idle", thread |-> "none"], binds |-> 0,
   release |-> [pc |-> "idle", thread |-> "none"],
   notification |-> "none", notifications |-> 0,
   client_calls |-> <<>>, skipped |-> 0, called_before_clear |-> FALSE,
   undefined |-> FALSE]

\* loop->BelongsToCurrentThread() asked on a thread
BelongsToCurrentThread(thread) == thread = LoopThread

\* loop->PostTask / loop->DeleteSoon: whether the loop takes the task
TaskAccepted(p) == p.accepting

\* the loop with the task appended, if it takes it
PostTask(p, task) ==
  IF TaskAccepted(p) THEN [p EXCEPT !.tasks = Append(@, task)] ELSE p

\* delete this: the destructor also destroys host_, which then delivers
\* no notification
DeleteThis(p, thread, by) ==
  [p EXCEPT !.alive = FALSE, !.deletions = @ + 1, !.deleted_on = thread,
            !.deleted_by = by, !.host_bound = FALSE]

\* Release(), the block under the lock: client_ = NULL
ReleaseClearClient(p) == [p EXCEPT !.client_ = NULL]

\* Release(), after the lock: delete this when there is no loop, when the
\* loop is the current thread or when DeleteSoon fails; else DeleteSoon
ReleaseDelete(p, thread) ==
  IF p.loop_ = NULL \/ BelongsToCurrentThread(thread) \/ ~TaskAccepted(p)
    THEN DeleteThis(p, thread, "delete this")
    ELSE PostTask(p, "DeleteSoon")

\* BindToLoop(stream_id, client, loop), the block under the lock
BindToLoopAssign(p) == [p EXCEPT !.loop_ = TheLoop, !.client_ = TheClient]

\* BindOnThread(stream_id): host_->BindToCurrentThread(stream_id, this); on
\* a deleted proxy this reads a dangling host_: undefined behaviour
BindOnThread(p) ==
  IF p.alive THEN [p EXCEPT !.host_bound = TRUE] ELSE [p EXCEPT !.undefined = TRUE]

\* BindToLoop, after the lock: BindOnThread at once on the loop thread, else
\* a task posted with base::Unretained(this)
BindToLoopDispatch(p, thread) ==
  IF BelongsToCurrentThread(thread) THEN BindOnThread(p)
  ELSE PostTask(p, "BindOnThread")

\* a variant that calls the client without looking at client_
OnFrameAvailable_Unchecked(p) ==
  [p EXCEPT !.client_calls = Append(@, "DidReceiveFrame"),
            !.called_before_clear = @ \/ p.release.pc = "entered"]

\* OnFrameAvailable(), under the lock: if (client_) client_->DidReceiveFrame()
OnFrameAvailable(p) ==
  IF p.client_ # NULL
    THEN [p EXCEPT !.client_calls = Append(@, "DidReceiveFrame"),
                   !.called_before_clear = @ \/ p.release.pc = "entered"]
    ELSE [p EXCEPT !.skipped = @ + 1]

\* OnMatrixChanged(matrix), under the lock: if (client_)
\* client_->DidUpdateMatrix(matrix)
OnMatrixChanged(p) ==
  IF p.client_ # NULL
    THEN [p EXCEPT !.client_calls = Append(@, "DidUpdateMatrix"),
                   !.called_before_clear = @ \/ p.release.pc = "entered"]
    ELSE [p EXCEPT !.skipped = @ + 1]

\* the thread is free to make a call: the loop thread when it runs and does
\* nothing else, another thread always
CanCall(p, thread) ==
  thread = LoopThread => (p.loop_thread = "idle" /\ p.accepting)

\* what the loop thread does while the thread runs the call
Busy(p, thread, what) ==
  IF thread = LoopThread THEN [p EXCEPT !.loop_thread = what] ELSE p

\* the proxy goes on as p while the tilings stay as they are
ProxyDone(p) ==
  /\ proxy' = p
  /\ UNCHANGED <<tilings, heap, log, last_op, iterator>>

\* the owner of the proxy makes one call at a time, and none once it has
\* called Release (lines 59-61)
NoCallInProgress == proxy.bind.pc = "idle" /\ proxy.release.pc = "idle"

\* BindToLoop is called on a thread and runs its block under the lock
CallBindToLoop(thread) ==
  /\ ~proxy.undefined /\ NoCallInProgress
  /\ proxy.binds < MaxBinds
  /\ CanCall(proxy, thread)
  /\ proxy.lock_ = "free"
  /\ ProxyDone([Busy(BindToLoopAssign(proxy), thread, "BindToLoop")
                  EXCEPT !.bind = [pc |-> "assigned", thread |-> thread],
                         !.binds = @ + 1])

\* BindToLoop binds or posts the task and returns
ReturnFromBindToLoop ==
  /\ ~proxy.undefined /\ proxy.bind.pc = "assigned"
  /\ ProxyDone([Busy(BindToLoopDispatch(proxy, proxy.bind.thread),
                     proxy.bind.thread, "idle")
                  EXCEPT !.bind = [pc |-> "idle", thread |-> "none"]])

\* Release is called on a thread
CallRelease(thread) ==
  /\ ~proxy.undefined /\ NoCallInProgress
  /\ CanCall(proxy, thread)
  /\ ProxyDone([Busy(proxy, thread, "Release")
                  EXCEPT !.release = [pc |-> "entered", thread |-> thread]])

\* Release takes the lock when it is free and clears client_
ClearClientInRelease ==
  /\ ~proxy.undefined /\ proxy.release.pc = "entered"
  /\ proxy.lock_ = "free"
  /\ ProxyDone([ReleaseClearClient(proxy) EXCEPT !.release.pc = "cleared"])

\* Release deletes the proxy or posts its deletion and returns
ReturnFromRelease ==
  /\ ~proxy.undefined /\ proxy.release.pc = "cleared"
  /\ ProxyDone([Busy(ReleaseDelete(proxy, proxy.release.thread),
                     proxy.release.thread, "idle")
                  EXCEPT !.release.pc = "returned"])

\* the host, bound to the loop thread and not destroyed, calls its listener
\* there: the notification takes the lock
Notify(kind) ==
  /\ ~proxy.undefined /\ proxy.alive /\ proxy.host_bound
  /\ proxy.loop_thread = "idle" /\ proxy.accepting
  /\ proxy.notifications < MaxNotifications
  /\ proxy.lock_ = "free"
  /\ ProxyDone([proxy EXCEPT !.lock_ = kind, !.loop_thread = "notification",
                             !.notification = kind, !.notifications = @ + 1])

\* the notification looks at client_, calls it if set, and frees the lock
ReturnFromNotification ==
  /\ ~proxy.undefined /\ proxy.loop_thread = "notification"
  /\ ProxyDone([(IF proxy.notification = "OnFrameAvailable"
                   THEN OnFrameAvailable(proxy) ELSE OnMatrixChanged(proxy))
                  EXCEPT !.lock_ = "free", !.loop_thread = "idle",
                         !.notification = "none"])

\* the loop runs the task at the head of its queue
RunTask ==
  /\ ~proxy.undefined /\ proxy.loop_thread = "idle" /\ proxy.accepting
  /\ proxy.tasks # <<>>
  /\ ProxyDone([(IF Head(proxy.tasks) = "BindOnThread" THEN BindOnThread(proxy)
                 ELSE DeleteThis(proxy, LoopThread, "DeleteSoon"))
                  EXCEPT !.tasks = Tail(proxy.tasks)])

\* the loop ends: it takes no task any more and runs none of those queued
StopLoop ==
  /\ ~proxy.undefined /\ proxy.loop_thread = "idle" /\ proxy.accepting
  /\ ProxyDone([proxy EXCEPT !.accepting = FALSE, !.tasks = <<>>])

(***************************************************************************)
(* The operations as steps of a state machine.                             *)
(***************************************************************************)
\* the tilings of P after construction; the other tilings do not exist
InitOf(P) ==
  /\ \E bounds \in P.bounds :
       /\ ~SizeIsEmpty(ToFlooredScaledSize(bounds, P.scale[1], P.scale[2]))
       /\ tilings = [t \in Tilings |->
                       IF t \in P.tilings THEN PictureLayerTiling(P.scale, bounds)
                       ELSE NoTilingFields]
  /\ heap = <<>>
  /\ log = <<>>
  /\ last_op = [name |-> "Create", t |-> "A", args |-> <<>>]
  /\ iterator = NoCoverageIterator
  /\ proxy = NoStreamTextureProxy

\* the operation name(t) called with args ends in the world w
Done(w, name, t, args) ==
  /\ tilings' = w.tl
  /\ heap' = w.heap
  /\ log' = w.log
  /\ last_op' = [name |-> name, t |-> t, args |-> args]
  /\ iterator' = iterator
  /\ proxy' = proxy

\* the iterator operation name(args) ends in the world and the iterator of at
DoneIterating(at, name, args) ==
  /\ tilings' = at.w.tl
  /\ heap' = at.w.heap
  /\ log' = at.w.log
  /\ last_op' = [name |-> name, t |-> at.it.tiling, args |-> args]
  /\ iterator' = at.it
  /\ proxy' = proxy

Alive(t) == tilings[t].alive

Create(t, P) ==
  /\ ~Alive(t)
  /\ \E bounds \in P.bounds :
       /\ ~SizeIsEmpty(ToFlooredScaledSize(bounds, P.scale[1], P.scale[2]))
       /\ Done([World EXCEPT !.tl[t] = PictureLayerTiling(P.scale, bounds)],
               "Create", t, <<>>)

\* the destructor sets an empty live rect, which creates no tile
Destroy(t, P) ==
  /\ Alive(t)
  /\ Done(DestroyTiling(World, t, NoEnv), "Destroy", t, <<>>)

CallSetLiveTilesRect(t, P) ==
  /\ Alive(t)
  /\ \E r \in P.rects, env \in P.envs :
       /\ IsEmpty(r) \/ Contains(ContentRect(World, t), r)
       /\ Done(SetLiveTilesRect(World, t, r, env), "SetLiveTilesRect", t,
               [env |-> env])

CallCreateMissingTilesInLiveTilesRect(t, P) ==
  /\ Alive(t)
  /\ tilings[t].current_tree = PENDING_TREE
  /\ \E env \in P.envs :
       Done(CreateMissingTilesInLiveTilesRect(World, t, env),
            "CreateMissingTilesInLiveTilesRect", t, [env |-> env])

CallSetLayerBounds(t, P) ==
  /\ Alive(t)
  /\ \E bounds \in P.bounds, env \in P.envs :
       /\ bounds = tilings[t].layer_bounds
            \/ (tilings[t].current_tree = PENDING_TREE /\ ~SizeIsEmpty(bounds))
       /\ Done(SetLayerBounds(World, t, bounds, env), "SetLayerBounds", t,
               [layer_bounds |-> bounds,
                old_live_tiles_rect |-> tilings[t].live_tiles_rect])

\* a variant that invalidates whatever the current tree is
CallInvalidate_AnyTree(t, P) ==
  /\ Alive(t)
  /\ \E region \in P.regions, env \in P.envs :
       Done(Invalidate(World, t, region, env), "Invalidate", t,
            [layer_region |-> region, env |-> env])

CallInvalidate(t, P) ==
  /\ Alive(t)
  /\ tilings[t].current_tree = PENDING_TREE
  /\ \E region \in P.regions, env \in P.envs :
       Done(Invalidate(World, t, region, env), "Invalidate", t,
            [layer_region |-> region, env |-> env])

CallReset(t) ==
  /\ Alive(t)
  /\ Done(Reset(World, t), "Reset", t, <<>>)

\* args keeps the tree and the frame time passed, first whether no update
\* had been made before, and skipped whether the frame time had
CallUpdateTilePriorities(t, P) ==
  /\ Alive(t)
  /\ \E in \in P.updates, env \in P.envs :
       /\ has_ever_been_updated(World, t) => in.tree = tilings[t].current_tree
       /\ Done(UpdateTilePriorities(World, t, in, env), "UpdateTilePriorities", t,
               [tree |-> in.tree,
                current_frame_time_in_seconds |-> in.current_frame_time_in_seconds,
                in |-> in,
                first |-> ~has_ever_been_updated(World, t),
                skipped |-> ~NeedsUpdateForFrameAtTime(
                               World, t, in.current_frame_time_in_seconds)])

CallDidBecomeRecycled(t) ==
  /\ Alive(t)
  /\ \E drop \in BOOLEAN :
       Done(DidBecomeRecycled(World, t, [NoEnv EXCEPT !.drop = drop]),
            "DidBecomeRecycled", t, <<>>)

CallDidBecomeActive(t) ==
  /\ Alive(t)
  /\ Done(DidBecomeActive(World, t), "DidBecomeActive", t, <<>>)

CallUpdateTilesToCurrentPile(t) ==
  /\ Alive(t)
  /\ Done(UpdateTilesToCurrentPile(World, t), "UpdateTilesToCurrentPile", t, <<>>)

CallSetResolution(t, P) ==
  /\ Alive(t)
  /\ \E resolution \in P.resolutions :
       Done(set_resolution(World, t, resolution), "set_resolution", t,
            [resolution |-> resolution])

CallGPUMemoryUsageInBytes(t) ==
  /\ Alive(t)
  /\ Done(GPUMemoryUsageInBytes(World, t), "GPUMemoryUsageInBytes", t, <<>>)

\* ExpandRectEquallyToAreaBoundedBy(starting_rect, target_area,
\* bounding_rect, &expansion_cache_): args keeps the arguments, the result
\* and hit, whether the memo answered
CallExpandRectEquallyToAreaBoundedBy(t, P) ==
  /\ Alive(t)
  /\ \E starting_rect \in P.starting_rects, target_area \in P.target_areas,
        bounding_rect \in P.bounding_rects :
       LET cache == tilings[t].expansion_cache
           Returned(expansion) ==
             Done([World EXCEPT !.tl[t].expansion_cache = expansion.cache],
                  "ExpandRectEquallyToAreaBoundedBy", t,
                  [starting_rect |-> starting_rect, target_area |-> target_area,
                   bounding_rect |-> bounding_rect, result |-> expansion.result,
                   hit |-> /\ ~IsEmpty(starting_rect)
                           /\ cache.previous_start = starting_rect
                           /\ cache.previous_bounds = bounding_rect
                           /\ cache.previous_target = target_area])
       IN /\ IsEmpty(starting_rect) \/ (~IsEmpty(bounding_rect) /\ target_area > 0)
          /\ Returned(ExpandRectEquallyToAreaBoundedBy(
                        starting_rect, target_area, bounding_rect, cache))

\* the live rect is set while no iteration is under way: the tiling does
\* not change under an iterator that stands at a cell
CallSetLiveTilesRectBetweenIterations(t, P) ==
  /\ ~CoverageIteratorValid(iterator)
  /\ CallSetLiveTilesRect(t, P)

\* a coverage iterator is made over a destination rect of P, or over the
\* whole content at the destination scale; it replaces the one before
NewCoverageIterator(t, P) ==
  /\ Alive(t)
  /\ \E dest_scale \in P.dest_scales :
       \E dest_rect \in P.dest_rects \cup
             {ScaleToEnclosingRect(
                ContentRect(World, t),
                tilings[t].contents_scale[2] * dest_scale[1],
                tilings[t].contents_scale[1] * dest_scale[2])} :
         DoneIterating(CoverageIterator(World, t, dest_scale, dest_rect),
                       "CoverageIterator",
                       [dest_scale |-> dest_scale, dest_rect |-> dest_rect])

\* ++iterator
AdvanceCoverageIterator ==
  /\ IF iterator.tiling = NoTiling THEN TRUE ELSE Alive(iterator.tiling)
  /\ DoneIterating(CoverageIteratorIncrement(World, iterator), "operator++", <<>>)

(***************************************************************************)
(* Spec: the live rect and the tiles of one tiling.                        *)
(***************************************************************************)
Init == InitOf(Inputs)

Next ==
  \E t \in Inputs.tilings :
    \/ Create(t, Inputs)
    \/ Destroy(t, Inputs)
    \/ CallSetLiveTilesRect(t, Inputs)
    \/ CallCreateMissingTilesInLiveTilesRect(t, Inputs)
    \/ CallInvalidate(t, Inputs)
    \/ CallReset(t)
    \/ CallDidBecomeRecycled(t)
    \/ CallDidBecomeActive(t)
    \/ CallUpdateTilesToCurrentPile(t)
    \/ CallGPUMemoryUsageInBytes(t)

Spec == Init /\ [][Next]_vars

(***************************************************************************)
(* SpecUpdate: one tiling and its priority updates.                        *)
(***************************************************************************)
InitUpdate == InitOf(UpdateInputs)

NextUpdate ==
  \E t \in UpdateInputs.tilings :
    \/ CallSetLiveTilesRect(t, UpdateInputs)
    \/ CallCreateMissingTilesInLiveTilesRect(t, UpdateInputs)
    \/ CallUpdateTilePriorities(t, UpdateInputs)
    \/ CallDidBecomeRecycled(t)
    \/ CallDidBecomeActive(t)

SpecUpdate == InitUpdate /\ [][NextUpdate]_vars

(***************************************************************************)
(* SpecInterest: the priority updates of a tiling of several bundles.      *)
(***************************************************************************)
InitInterest == InitOf(InterestInputs)

NextInterest ==
  \E t \in InterestInputs.tilings :
    \/ CallUpdateTilePriorities(t, InterestInputs)
    \/ CallSetResolution(t, InterestInputs)
    \/ CallDidBecomeRecycled(t)

SpecInterest == InitInterest /\ [][NextInterest]_vars

(***************************************************************************)
(* SpecBounds: one tiling and its layer bounds.                            *)
(***************************************************************************)
InitBounds == InitOf(BoundsInputs)

NextBounds ==
  \E t \in BoundsInputs.tilings :
    \/ CallSetLiveTilesRect(t, BoundsInputs)
    \/ CallSetLayerBounds(t, BoundsInputs)
    \/ CallInvalidate(t, BoundsInputs)
    \/ CallCreateMissingTilesInLiveTilesRect(t, BoundsInputs)
    \/ CallUpdateTilePriorities(t, BoundsInputs)
    \/ CallReset(t)
    \/ CallDidBecomeActive(t)
    \/ CallDidBecomeRecycled(t)

SpecBounds == InitBounds /\ [][NextBounds]_vars

(***************************************************************************)
(* SpecTwin: two twin tilings.                                             *)
(***************************************************************************)
InitTwin == InitOf(TwinInputs)

NextTwin ==
  \E t \in TwinInputs.tilings :
    \/ CallSetLiveTilesRect(t, TwinInputs)
    \/ CallCreateMissingTilesInLiveTilesRect(t, TwinInputs)
    \/ CallInvalidate(t, TwinInputs)
    \/ CallUpdateTilePriorities(t, TwinInputs)

SpecTwin == InitTwin /\ [][NextTwin]_vars

(***************************************************************************)
(* SpecDestroy: two twin tilings and their destruction.                    *)
(***************************************************************************)
InitDestroy == InitOf(TwinInputs)

NextDestroy ==
  \E t \in TwinInputs.tilings :
    \/ CallSetLiveTilesRect(t, TwinInputs)
    \/ CallUpdateTilePriorities(t, TwinInputs)
    \/ Destroy(t, TwinInputs)

SpecDestroy == InitDestroy /\ [][NextDestroy]_vars

(***************************************************************************)
(* SpecProxy: one stream texture proxy, its loop and its callers.          *)
(***************************************************************************)
InitProxy ==
  /\ tilings = [t \in Tilings |-> NoTilingFields]
  /\ heap = <<>>
  /\ log = <<>>
  /\ last_op = [name |-> "CreateProxy", t |-> "A", args |-> <<>>]
  /\ iterator = NoCoverageIterator
  /\ proxy = NewStreamTextureProxy

NextProxy ==
  \/ \E thread \in Threads : CallBindToLoop(thread)
  \/ ReturnFromBindToLoop
  \/ \E thread \in Threads : CallRelease(thread)
  \/ ClearClientInRelease
  \/ ReturnFromRelease
  \/ \E kind \in {"OnFrameAvailable", "OnMatrixChanged"} : Notify(kind)
  \/ ReturnFromNotification
  \/ RunTask
  \/ StopLoop

SpecProxy == InitProxy /\ [][NextProxy]_vars

(***************************************************************************)
(* SpecScenario: the layer of 1000x1000.                                   *)
(***************************************************************************)
InitScenario == InitOf(ScenarioInputs)

NextScenario ==
  \E t \in ScenarioInputs.tilings :
    \/ CallSetLiveTilesRect(t, ScenarioInputs)
    \/ CallInvalidate(t, ScenarioInputs)
    \/ CallDidBecomeActive(t)
    \/ CallDidBecomeRecycled(t)

SpecScenario == InitScenario /\ [][NextScenario]_vars

(***************************************************************************)
(* SpecExpand: the rectangle expansion with one memo.                      *)
(***************************************************************************)
InitExpand == InitOf(ExpandInputs)

NextExpand ==
  \E t \in ExpandInputs.tilings :
    CallExpandRectEquallyToAreaBoundedBy(t, ExpandInputs)

SpecExpand == InitExpand /\ [][NextExpand]_vars

(***************************************************************************)
(* SpecCoverage: the coverage iterators of one tiling.                     *)
(***************************************************************************)
InitCoverage == InitOf(CoverageInputs)

NextCoverage ==
  \/ \E t \in CoverageInputs.tilings :
       \/ CallSetLiveTilesRectBetweenIterations(t, CoverageInputs)
       \/ NewCoverageIterator(t, CoverageInputs)
  \/ AdvanceCoverageIterator

SpecCoverage == InitCoverage /\ [][NextCoverage]_vars

(***************************************************************************)
(* Properties.                                                             *)
(***************************************************************************)
\* the world of the current state
Now == [tl |-> tilings, heap |-> heap, log |-> log]

\* the cells of a grid, and the cells a TilingData::Iterator visits, as sets
GridCells(td) == (0..(num_tiles_x(td) - 1)) \X (0..(num_tiles_y(td) - 1))
CellsOf(td, r) == {IteratorCells(td, r)[k] : k \in 1..Len(IteratorCells(td, r))}

\* the calls of one kind in a log
Logged(l, kind) == {k \in 1..Len(l) : l[k][1] = kind}

\* the calls of a log that put a tile into a slot or take one out
TileChanges(l) == Logged(l, "AddTileAt") \cup Logged(l, "RemoveTileAt")

\* C1: twin tilings of equal tile size keep the same bundle instance under
\* every key both hold, so a lookup of a tree and a cell whose key both hold
\* returns the same tile from either tiling
TwinBundlesShared ==
  tilings["A"].tiling_data.tile = tilings["B"].tiling_data.tile =>
    \A key \in (DOMAIN tilings["A"].tile_bundles) \cap (DOMAIN tilings["B"].tile_bundles) :
      /\ tilings["A"].tile_bundles[key] = tilings["B"].tile_bundles[key]
      /\ \A tree \in WhichTree, c \in GridCells(tilings["A"].tiling_data) :
           ComputeTileBundleIndex(c[1], c[2]) = key =>
             TileAtResult(Now, "A", tree, c[1], c[2]) = TileAtResult(Now, "B", tree, c[1], c[2])

\* C1 witness: B has just set its live rect and holds a key A holds too,
\* whose bundle keeps a tile
TwinBundlesSharedWitness ==
  /\ last_op.name = "SetLiveTilesRect" /\ last_op.t = "B"
  /\ \E key \in (DOMAIN tilings["A"].tile_bundles) \cap (DOMAIN tilings["B"].tile_bundles) :
       DOMAIN heap[tilings["B"].tile_bundles[key]].tiles # {}

\* C2 as stated: every bundle key of a tiling's map has an occupied slot
BundlePresentIffOccupied ==
  \A t \in Tilings : \A key \in DOMAIN tilings[t].tile_bundles :
    DOMAIN heap[tilings[t].tile_bundles[key]].tiles # {}

\* C3: the live rect is empty or inside the content rect, and the total size
\* of the grid is the layer bounds scaled and rounded up
LiveRectWithinContent ==
  \A t \in Tilings : Alive(t) =>
    /\ IsEmpty(tilings[t].live_tiles_rect)
         \/ Contains(ContentRect(Now, t), tilings[t].live_tiles_rect)
    /\ tilings[t].tiling_data.total =
         ToCeiledScaledSize(tilings[t].layer_bounds, tilings[t].contents_scale[1],
                            tilings[t].contents_scale[2])

\* C3 witness: SetLayerBounds has shrunk the layer under a live rect, cut the
\* live rect to the new content and removed a tile
LiveRectWithinContentWitness ==
  /\ last_op.name = "SetLayerBounds"
  /\ tilings[last_op.t].layer_bounds = Size(9, 5)
  /\ tilings[last_op.t].live_tiles_rect = Rect(2, 0, 3, 3)
  /\ Logged(log, "RemoveTileAt") # {}

\* C4 as stated: after an operation that ran a create pass, every cell of
\* the live rect has a tile of the current tree (the client returns no NULL
\* in SpecUpdate)
LiveCellsHaveCurrentTreeTile ==
  \A t \in Tilings :
    (/\ Alive(t) /\ last_op.t = t
     /\ last_op.name \in {"SetLiveTilesRect", "CreateMissingTilesInLiveTilesRect",
                          "UpdateTilePriorities"}
     /\ Logged(log, "GetTwinTiling") # {}) =>
      \A c \in CellsOf(tilings[t].tiling_data, tilings[t].live_tiles_rect) :
        TileAtResult(Now, t, tilings[t].current_tree, c[1], c[2]) # NULL

\* a step of SetLiveTilesRect on t from a live rect to a different rect that
\* the old one contains
ShrinkStep(t) ==
  /\ last_op'.name = "SetLiveTilesRect" /\ last_op'.t = t
  /\ tilings'[t].live_tiles_rect # tilings[t].live_tiles_rect
  /\ ~IsEmpty(tilings[t].live_tiles_rect)
  /\ IsEmpty(tilings'[t].live_tiles_rect)
       \/ Contains(tilings[t].live_tiles_rect, tilings'[t].live_tiles_rect)

\* C5: shrinking the live rect removes the current tree's tiles of exactly
\* the cells of the old rect that are not cells of the new one, creates no
\* tile, and leaves every other tile the object it was
ShrinkKeepsTiles ==
  [][\A t \in Tilings : ShrinkStep(t) =>
       LET td == tilings[t].tiling_data
           tree == tilings[t].current_tree
           other == IF tree = ACTIVE_TREE THEN PENDING_TREE ELSE ACTIVE_TREE
           gone == CellsOf(td, tilings[t].live_tiles_rect)
                     \ CellsOf(td, tilings'[t].live_tiles_rect)
       IN /\ \A c \in gone : TileAtResult(WorldAfter, t, tree, c[1], c[2]) = NULL
          /\ \A c \in GridCells(td) \ gone :
               TileAtResult(WorldAfter, t, tree, c[1], c[2])
                 = TileAtResult(World, t, tree, c[1], c[2])
          /\ \A c \in GridCells(td) :
               TileAtResult(WorldAfter, t, other, c[1], c[2])
                 = TileAtResult(World, t, other, c[1], c[2])
          /\ Logged(log', "CreateTile") = {}
          /\ Logged(log', "AddTileAt") = {}
          /\ Logged(log', "CreateTileBundle") = {}]_vars

\* C5 witness: the live rect has shrunk to its right part, a tile was removed
\* and none created, and a tile is still there
ShrinkKeepsTilesWitness ==
  /\ last_op.name = "SetLiveTilesRect"
  /\ tilings[last_op.t].live_tiles_rect = Rect(4, 1, 3, 2)
  /\ Logged(log, "RemoveTileAt") # {}
  /\ Logged(log, "CreateTile") = {} /\ Logged(log, "AddTileAt") = {}
  /\ \E c \in GridCells(tilings[last_op.t].tiling_data) :
       TileAtResult(Now, last_op.t, tilings[last_op.t].current_tree, c[1], c[2]) # NULL

\* the cells whose bounds with border overlap a rectangle of the layer region
\* scaled to content space and intersected with the live rect
InvalidatedCells(t, layer_region) ==
  {c \in GridCells(tilings[t].tiling_data) :
     \E k \in 1..Len(layer_region) :
       Intersects(TileBoundsWithBorder(tilings[t].tiling_data, c[1], c[2]),
                  IntersectRects(
                    ScaleToEnclosingRect(layer_region[k], tilings[t].contents_scale[1],
                                         tilings[t].contents_scale[2]),
                    tilings[t].live_tiles_rect))}

\* the layer of the scenario: 1000x1000 at scale 1 with tiles of 256x256
IsScenario(t) ==
  /\ Alive(t)
  /\ tilings[t].layer_bounds = Size(1000, 1000)
  /\ tilings[t].contents_scale = <<1, 1>>
  /\ tilings[t].tiling_data.tile = Size(256, 256)

TreeTransitions ==
  /\ \A t \in Tilings : tilings[t].current_tree \in {PENDING_TREE, ACTIVE_TREE}
  /\ last_op.name = "Create" => tilings[last_op.t].current_tree = PENDING_TREE
  /\ last_op.name = "DidBecomeRecycled" =>
       /\ tilings[last_op.t].current_tree = PENDING_TREE
       /\ \A key \in DOMAIN tilings[last_op.t].tile_bundles :
            \E k \in Logged(log, "DidBecomeRecycled") :
              log[k][2] = tilings[last_op.t].tile_bundles[key]
  /\ last_op.name = "DidBecomeActive" =>
       /\ tilings[last_op.t].current_tree = ACTIVE_TREE
       /\ \A key \in DOMAIN tilings[last_op.t].tile_bundles :
            \E k \in Logged(log, "DidBecomeActive") :
              log[k][2] = tilings[last_op.t].tile_bundles[key]

\* C8 witness: a tiling of two bundles has become recycled
TreeTransitionsWitness ==
  /\ last_op.name = "DidBecomeRecycled"
  /\ Cardinality(DOMAIN tilings[last_op.t].tile_bundles) = 2
  /\ Len(log) = 2

\* C9: the first priority update of a tiling makes the tree passed the
\* current tree; a later one is passed the current tree and leaves it
FirstUpdateAdoptsTree ==
  [][\A t \in Tilings :
       (last_op'.name = "UpdateTilePriorities" /\ last_op'.t = t) =>
         IF tilings[t].last_impl_frame_time_in_seconds = 0
           THEN tilings'[t].current_tree = last_op'.args.tree
           ELSE /\ last_op'.args.tree = tilings[t].current_tree
                /\ tilings'[t].current_tree = tilings[t].current_tree]_vars

\* C9 witness: a first priority update has adopted the active tree on a
\* tiling that held tiles of the pending tree
FirstUpdateAdoptsTreeWitness ==
  /\ last_op.name = "UpdateTilePriorities"
  /\ last_op.args.first /\ last_op.args.tree = ACTIVE_TREE
  /\ tilings[last_op.t].current_tree = ACTIVE_TREE
  /\ \E b \in DOMAIN heap : \E s \in DOMAIN heap[b].tiles : s[1] = PENDING_TREE

\* C10: a priority update at the frame time of the last one changes nothing
\* of the tiling, of its bundles and tiles, and makes no call
SameFrameUpdateSkipped ==
  [][\A t \in Tilings :
       (/\ last_op'.name = "UpdateTilePriorities" /\ last_op'.t = t
        /\ last_op'.args.current_frame_time_in_seconds
             = tilings[t].last_impl_frame_time_in_seconds) =>
         /\ tilings'[t] = World.tl[t]
         /\ heap' = World.heap
         /\ log' = <<>>]_vars

\* C10 witness: a priority update was skipped on a tiling with live tiles
SameFrameUpdateSkippedWitness ==
  /\ last_op.name = "UpdateTilePriorities"
  /\ last_op.args.skipped
  /\ ~IsEmpty(tilings[last_op.t].live_tiles_rect)
  /\ DOMAIN heap # {}

\* the last operation was a call of the expansion
ExpansionCalled == last_op.name = "ExpandRectEquallyToAreaBoundedBy"

\* C11: for a non-empty starting rectangle the expansion returns an empty
\* rectangle or a rectangle inside the bounding rectangle; for
\* (100,100,50,50) in (0,0,200,200) with target 40000 the result is inside
\* (0,0,200,200)
ExpansionWithinBounds ==
  (ExpansionCalled /\ ~IsEmpty(last_op.args.starting_rect)) =>
    /\ IsEmpty(last_op.args.result)
         \/ Contains(last_op.args.bounding_rect, last_op.args.result)
    /\ (/\ last_op.args.starting_rect = Rect(100, 100, 50, 50)
        /\ last_op.args.bounding_rect = Rect(0, 0, 200, 200)
        /\ last_op.args.target_area = 40000) =>
         /\ ~IsEmpty(last_op.args.result)
         /\ Contains(Rect(0, 0, 200, 200), last_op.args.result)

\* C11 witness: (100,100,50,50) was expanded in (0,0,200,200) to the target
\* 40000 and has reached edges of the bounding rectangle
ExpansionWithinBoundsWitness ==
  /\ ExpansionCalled /\ ~last_op.args.hit
  /\ last_op.args.starting_rect = Rect(100, 100, 50, 50)
  /\ last_op.args.bounding_rect = Rect(0, 0, 200, 200)
  /\ last_op.args.target_area = 40000
  /\ Right(last_op.args.result) = 200 /\ Bottom(last_op.args.result) = 200

\* C12: the memo is transparent: a call with a non-empty starting rectangle
\* returns what the computation without memo returns and leaves the memo
\* holding its three inputs and its result; a call whose three inputs are
\* those of the memo returns the memo's result; a call with an empty
\* starting rectangle leaves the memo as it is
MemoTransparent ==
  [][\A t \in Tilings :
       (last_op'.name = "ExpandRectEquallyToAreaBoundedBy" /\ last_op'.t = t) =>
         LET in == last_op'.args
             memo == tilings[t].expansion_cache
         IN IF IsEmpty(in.starting_rect)
              THEN tilings'[t].expansion_cache = memo
              ELSE /\ in.result = ExpandUncached(in.starting_rect, in.target_area,
                                                 in.bounding_rect)
                   /\ tilings'[t].expansion_cache =
                        [previous_start |-> in.starting_rect,
                         previous_bounds |-> in.bounding_rect,
                         previous_target |-> in.target_area,
                         previous_result |-> in.result]
                   /\ (/\ memo.previous_start = in.starting_rect
                       /\ memo.previous_bounds = in.bounding_rect
                       /\ memo.previous_target = in.target_area) =>
                        in.result = memo.previous_result]_vars

\* C12 witness: the memo has answered a call with a non-empty result
MemoTransparentWitness ==
  /\ ExpansionCalled /\ last_op.args.hit
  /\ ~IsEmpty(last_op.args.result)
  /\ tilings[last_op.t].expansion_cache.previous_result = last_op.args.result

\* the states of the event loop from event k on, the state it starts in first
RECURSIVE ExpandSteps(_, _, _)
ExpandSteps(st, k, target_area) ==
  IF k > 4 \/ st.done THEN <<st>>
  ELSE <<st>> \o ExpandSteps(ExpandStep(st, k, target_area), k + 1, target_area)

\* the states the event loop of a call goes through; none when the call
\* returns before the loop
StepsOfCall(in) ==
  LET Steps(delta, expanded_starting_rect, rect) ==
        IF IsEmpty(rect) \/ (delta >= 0 /\ rect = expanded_starting_rect) THEN <<>>
        ELSE ExpandSteps(ExpandStart(rect, in.bounding_rect), 1, in.target_area)
      Grown(delta, expanded_starting_rect) ==
        Steps(delta, expanded_starting_rect,
              IntersectRects(expanded_starting_rect, in.bounding_rect))
      Started(delta) ==
        Grown(delta, IF delta > 0
                       THEN Inset(in.starting_rect, -delta, -delta, -delta, -delta)
                       ELSE in.starting_rect)
  IN IF IsEmpty(in.starting_rect) THEN <<>>
     ELSE Started(ComputeExpansionDelta(2, 2, in.starting_rect.w, in.starting_rect.h,
                                        in.target_area))

\* the result contains the part of the starting rectangle inside the
\* bounding rectangle, and no step of the loop makes the rectangle narrower
\* or lower or moves its origin right or down
GrowsOutward(in) ==
  /\ Contains(in.result, IntersectRects(in.starting_rect, in.bounding_rect))
  /\ \A k \in 1..(Len(StepsOfCall(in)) - 1) :
       LET before == StepsOfCall(in)[k]
           after == StepsOfCall(in)[k + 1]
       IN /\ after.width >= before.width /\ after.height >= before.height
          /\ after.origin_x <= before.origin_x /\ after.origin_y <= before.origin_y

\* C13 as stated: for every non-empty starting rectangle that intersects the
\* bounding rectangle, the result contains (starting /\ bounding) and every
\* step of the call moves the edges outward only
ExpansionContainsStart ==
  (/\ ExpansionCalled /\ ~IsEmpty(last_op.args.starting_rect)
   /\ Intersects(last_op.args.starting_rect, last_op.args.bounding_rect)) =>
    GrowsOutward(last_op.args)

\* C13 amended: the same for a starting rectangle whose area is at most the
\* target area
SmallStartGrowsOutward ==
  (/\ ExpansionCalled /\ ~IsEmpty(last_op.args.starting_rect)
   /\ Intersects(last_op.args.starting_rect, last_op.args.bounding_rect)
   /\ last_op.args.starting_rect.w * last_op.args.starting_rect.h
        <= last_op.args.target_area) =>
    GrowsOutward(last_op.args)

\* C13 witness: a call whose loop ran and whose result is larger than the
\* part of the starting rectangle inside the bounding rectangle
SmallStartGrowsOutwardWitness ==
  /\ ExpansionCalled /\ ~last_op.args.hit
  /\ Intersects(last_op.args.starting_rect, last_op.args.bounding_rect)
  /\ last_op.args.starting_rect.w * last_op.args.starting_rect.h
       <= last_op.args.target_area
  /\ Len(StepsOfCall(last_op.args)) > 1
  /\ last_op.args.result # IntersectRects(last_op.args.starting_rect,
                                          last_op.args.bounding_rect)

\* the starting rectangle grown by the first delta, before it is bounded
GrownStart(starting_rect, target_area) ==
  LET Grown(delta) ==
        IF delta > 0 THEN Inset(starting_rect, -delta, -delta, -delta, -delta)
        ELSE starting_rect
  IN Grown(ComputeExpansionDelta(2, 2, starting_rect.w, starting_rect.h, target_area))

\* C14: a call with an empty starting rectangle returns an empty rectangle
\* and leaves the memo as it is; a call whose grown starting rectangle does
\* not intersect the bounding rectangle returns an empty rectangle, and the
\* memo then holds the call's inputs and that empty result
DegenerateReturnsEmpty ==
  [][\A t \in Tilings :
       (last_op'.name = "ExpandRectEquallyToAreaBoundedBy" /\ last_op'.t = t) =>
         LET in == last_op'.args
         IN /\ IsEmpty(in.starting_rect) =>
                 /\ IsEmpty(in.result)
                 /\ tilings'[t].expansion_cache = tilings[t].expansion_cache
            /\ (/\ ~IsEmpty(in.starting_rect)
                /\ ~Intersects(GrownStart(in.starting_rect, in.target_area),
                               in.bounding_rect)) =>
                 /\ IsEmpty(in.result)
                 /\ tilings'[t].expansion_cache =
                      [previous_start |-> in.starting_rect,
                       previous_bounds |-> in.bounding_rect,
                       previous_target |-> in.target_area,
                       previous_result |-> in.result]]_vars

\* C14 witness: a call with an empty starting rectangle has returned while
\* the memo holds the empty result of an earlier call whose grown starting
\* rectangle missed the bounding rectangle
DegenerateReturnsEmptyWitness ==
  /\ ExpansionCalled /\ IsEmpty(last_op.args.starting_rect)
  /\ IsEmpty(last_op.args.result)
  /\ LET memo == tilings[last_op.t].expansion_cache
     IN /\ memo.previous_target > 0 /\ ~IsEmpty(memo.previous_start)
        /\ ~Intersects(GrownStart(memo.previous_start, memo.previous_target),
                       memo.previous_bounds)
        /\ IsEmpty(memo.previous_result)

\* the cells the index range of the iterator holds, row by row
RangeCells(it) == RowMajor(it.left, it.right, it.top, it.bottom, it.left, it.top)

\* the destination rect of the iterator in content space, clipped to the grid
Footprint(it) ==
  IF it.tiling = NoTiling THEN EmptyRect
  ELSE IntersectRects(
         ScaleToEnclosingRect(it.dest_rect, it.dest_to_content_scale[1],
                              it.dest_to_content_scale[2]),
         RectOfSize(tilings[it.tiling].tiling_data.total))

\* the iterator goes over the whole content rect of its tiling at the
\* tiling's own scale
OverContentAtOwnScale(it) ==
  /\ it.tiling # NoTiling
  /\ it.dest_to_content_scale[1] = it.dest_to_content_scale[2]
  /\ it.dest_rect = RectOfSize(tilings[it.tiling].tiling_data.total)

\* the points of a rectangle
PointsOf(r) == (r.x .. (Right(r) - 1)) \X (r.y .. (Bottom(r) - 1))

\* C15: when an iteration over the whole content rect at the tiling's own
\* scale has ended, every point of the content rect lies in the geometry rect
\* of exactly one step and no geometry rect has a point outside it; between
\* two steps that follow each other there is no gap: in a row the next rect
\* starts where the one before ends, and a row starts at the bottom of the
\* row before
FullCoverageExact ==
  (OverContentAtOwnScale(iterator) /\ ~CoverageIteratorValid(iterator)) =>
    LET seq == iterator.yielded
    IN /\ \A p \in PointsOf(iterator.dest_rect) :
            Cardinality({k \in 1..Len(seq) : p \in PointsOf(seq[k].geometry_rect)}) = 1
       /\ \A k \in 1..Len(seq) :
            /\ ~IsEmpty(seq[k].geometry_rect)
            /\ PointsOf(seq[k].geometry_rect) \subseteq PointsOf(iterator.dest_rect)
       /\ \A k \in 1..(Len(seq) - 1) :
            IF seq[k + 1].j = seq[k].j
              THEN seq[k + 1].geometry_rect.x = Right(seq[k].geometry_rect)
              ELSE seq[k + 1].geometry_rect.y = Bottom(seq[k].geometry_rect)

\* C15 witness: an iteration over the whole content of a grid of 3x3 cells
\* at the tiling's own scale has ended after nine steps
FullCoverageExactWitness ==
  /\ OverContentAtOwnScale(iterator) /\ ~CoverageIteratorValid(iterator)
  /\ Len(iterator.yielded) = 9
  /\ last_op.name = "operator++"

\* C16: every geometry rect an iterator has yielded lies in the destination
\* rect; of two steps that follow each other in a row the second rect starts
\* at the right edge of the first and has the same top and bottom; the first
\* rect of a row starts at or below the bottom of the last rect of the row
\* before; the rects of two steps that follow each other do not overlap
GeometrySnapped ==
  LET seq == iterator.yielded
  IN /\ \A k \in 1..Len(seq) : Contains(iterator.dest_rect, seq[k].geometry_rect)
     /\ \A k \in 1..(Len(seq) - 1) :
          LET last == seq[k].geometry_rect
              current == seq[k + 1].geometry_rect
          IN /\ ~Intersects(last, current)
             /\ IF seq[k + 1].j = seq[k].j
                  THEN /\ current.x = Right(last)
                       /\ current.y = last.y
                       /\ Bottom(current) = Bottom(last)
                  ELSE current.y >= Bottom(last)

\* C16 witness: an iterator whose destination scale is not the tiling's has
\* yielded rects of two rows, one of which was snapped to the rect before it
GeometrySnappedWitness ==
  /\ iterator.tiling # NoTiling
  /\ iterator.dest_to_content_scale[1] # iterator.dest_to_content_scale[2]
  /\ \E k \in 1..(Len(iterator.yielded) - 1) :
       iterator.yielded[k + 1].j # iterator.yielded[k].j
  /\ \E k \in 2..Len(iterator.yielded) :
       iterator.yielded[k].geometry_rect #
         IntersectRects(
           ScaleToEnclosingRect(
             TileBounds(tilings[iterator.tiling].tiling_data,
                        iterator.yielded[k].i, iterator.yielded[k].j),
             iterator.dest_to_content_scale[2], iterator.dest_to_content_scale[1]),
           iterator.dest_rect)

\* C17: the cells an iterator has stood at are the first cells, row by row,
\* of its index range, which holds exactly the cells of the grid that the
\* clipped footprint overlaps; the iterator stands at the last of them, and
\* when it has ended it has stood at all (right-left+1) x (bottom-top+1) of
\* them; an iterator of an empty destination rect or an empty footprint has
\* ended without a step; advancing an iterator that has ended changes
\* neither the iterator nor the tiling and makes no call
VisitsRowMajorOnce ==
  /\ [](LET it == iterator
            cells == RangeCells(iterator)
            n == Len(iterator.yielded)
        IN /\ n <= Len(cells)
           /\ \A k \in 1..n : <<it.yielded[k].i, it.yielded[k].j>> = cells[k]
           /\ Len(cells) = (it.right - it.left + 1) * (it.bottom - it.top + 1)
           /\ it.tiling # NoTiling =>
                {cells[k] : k \in 1..Len(cells)} =
                  {c \in GridCells(tilings[it.tiling].tiling_data) :
                     Intersects(TileBounds(tilings[it.tiling].tiling_data, c[1], c[2]),
                                Footprint(it))}
           /\ IF CoverageIteratorValid(it)
                THEN n >= 1 /\ <<it.tile_i, it.tile_j>> = cells[n]
                ELSE n = Len(cells)
           /\ (IsEmpty(it.dest_rect) \/ IsEmpty(Footprint(it))) =>
                ~CoverageIteratorValid(it) /\ n = 0)
  /\ [][(last_op'.name = "operator++" /\ ~CoverageIteratorValid(iterator)) =>
          /\ iterator' = iterator
          /\ tilings' = World.tl /\ heap' = World.heap /\ log' = <<>>]_vars

\* C17 witness: an iterator that had ended after it had stood at the four
\* cells of two rows has been advanced once more
VisitsRowMajorOnceWitness ==
  /\ last_op.name = "operator++"
  /\ ~CoverageIteratorValid(iterator)
  /\ iterator.current_tile = NULL
  /\ Len(iterator.yielded) = 4
  /\ iterator.bottom = iterator.top + 1
  /\ iterator.tile_j = iterator.bottom + 1
  /\ log = <<>>

\* the content size of a tiling for layer bounds
ContentBoundsFor(t, layer_bounds) ==
  ToCeiledScaledSize(layer_bounds, tilings[t].contents_scale[1],
                     tilings[t].contents_scale[2])

\* C18: SetLayerBounds with the bounds the tiling has changes neither the
\* tiling nor a bundle and makes no call; with bounds for whose content size
\* the client chooses another tile size it leaves no bundle and an empty live
\* rect, and the tile size and the total size are those of the new content
\* size
SetLayerBoundsResets ==
  [][\A t \in Tilings :
       (last_op'.name = "SetLayerBounds" /\ last_op'.t = t) =>
         LET layer_bounds == last_op'.args.layer_bounds
             content_bounds == ContentBoundsFor(t, last_op'.args.layer_bounds)
         IN /\ layer_bounds = tilings[t].layer_bounds =>
                 tilings' = World.tl /\ heap' = World.heap /\ log' = <<>>
            /\ (/\ layer_bounds # tilings[t].layer_bounds
                /\ CalculateTileSize(content_bounds) # tilings[t].tiling_data.tile) =>
                 /\ tilings'[t].tile_bundles = <<>>
                 /\ tilings'[t].live_tiles_rect = EmptyRect
                 /\ tilings'[t].tiling_data =
                      TilingData(content_bounds, CalculateTileSize(content_bounds))
                 /\ tilings'[t].layer_bounds = layer_bounds
                 /\ TilesOf(WorldAfter) = {}]_vars

\* C18 witness: SetLayerBounds has changed the tile size of a tiling whose
\* live rect was not empty
SetLayerBoundsResetsWitness ==
  /\ last_op.name = "SetLayerBounds"
  /\ ~IsEmpty(last_op.args.old_live_tiles_rect)
  /\ tilings[last_op.t].layer_bounds = last_op.args.layer_bounds
  /\ tilings[last_op.t].tiling_data.tile = Size(6, 4)
  /\ tilings[last_op.t].tile_bundles = <<>>
  /\ IsEmpty(tilings[last_op.t].live_tiles_rect)

\* the tree that is not tree
TwinTree(tree) == IF tree = ACTIVE_TREE THEN PENDING_TREE ELSE ACTIVE_TREE

\* the operations that call CreateTile for cells of their own choice and
\* keep the client's answers in their arguments
CreatingOperations == {"SetLiveTilesRect", "CreateMissingTilesInLiveTilesRect", "Invalidate"}

\* the k-th call of the log is the lookup of the twin tree's tile that
\* CreateTile makes in the bundle of the cell
IsCreateTileAt(l, k, tree) == l[k][1] = "TileAt" /\ l[k][3] = TwinTree(tree)

\* the k-th call of the log is a CreateTile that adopts the twin tree's tile
IsAdoption(l, k, tree) ==
  /\ IsCreateTileAt(l, k, tree) /\ k < Len(l)
  /\ l[k + 1][1] = "AddTileAt" /\ l[k + 1][3] = tree
  /\ l[k + 1][4] = l[k][4] /\ l[k + 1][5] = l[k][5]

\* C19: each CreateTile(tree, i, j) of an operation adopts the tile the twin
\* tree has at the cell in the cell's bundle, without a call of the client's
\* CreateTile for the cell, exactly when that tile exists and the cell's
\* bounds with border, scaled back to layer space, do not intersect the
\* client's invalidation; otherwise the client's CreateTile is called once
\* for the cell, with the rect of the paint origin and the tile size
CreateTileAdoptsOrCreates ==
  [][\A t \in Tilings :
       (last_op'.name \in CreatingOperations /\ last_op'.t = t) =>
         LET tree == tilings[t].current_tree
             td == tilings[t].tiling_data
             l == log'
         IN \A k \in 1..Len(l) :
              IsCreateTileAt(l, k, tree) =>
                LET paint_rect == TileBoundsWithBorder(td, l[k][4], l[k][5])
                    candidate_tile ==
                      IF l[k][2] \in DOMAIN World.heap
                        THEN BundleTileAt(World, l[k][2], TwinTree(tree), l[k][4], l[k][5])
                        ELSE NULL
                    valid ==
                      /\ candidate_tile # NULL
                      /\ ~RegionIntersects(
                            last_op'.args.env.invalidation,
                            ScaleToEnclosingRect(paint_rect, tilings[t].contents_scale[2],
                                                 tilings[t].contents_scale[1]))
                    created == {n \in Logged(l, "CreateTile") :
                                  l[n][3].x = paint_rect.x /\ l[n][3].y = paint_rect.y}
                IN /\ k < Len(l)
                   /\ valid <=> IsAdoption(l, k, tree)
                   /\ IF valid
                        THEN /\ created = {}
                             /\ l[k + 1] = <<"AddTileAt", l[k][2], tree, l[k][4], l[k][5],
                                             candidate_tile>>
                        ELSE /\ created = {k + 1}
                             /\ l[k + 1][3] = Rect(paint_rect.x, paint_rect.y,
                                                   td.tile.w, td.tile.h)]_vars

\* C19 witness: one operation has adopted the twin tree's tile at one cell
\* and has asked the client for a tile at another cell where the twin tree
\* has a tile
CreateTileAdoptsOrCreatesWitness ==
  /\ last_op.name \in CreatingOperations
  /\ \E k \in 1..Len(log) : IsAdoption(log, k, tilings[last_op.t].current_tree)
  /\ \E k \in 1..(Len(log) - 1) :
       /\ IsCreateTileAt(log, k, tilings[last_op.t].current_tree)
       /\ log[k + 1][1] = "CreateTile"
       /\ <<TwinTree(tilings[last_op.t].current_tree), log[k][4], log[k][5]>>
            \in DOMAIN heap[log[k][2]].tiles

\* the calls of a log that belong to the creation of tiles: the lookup of
\* the twin tiling, the making of a bundle, the lookup of the twin tree's
\* tile, the client's CreateTile and the filling of a slot
CreationCalls(l, tree) ==
  Logged(l, "GetTwinTiling") \cup Logged(l, "CreateTileBundle")
    \cup Logged(l, "CreateTile") \cup Logged(l, "AddTileAt")
    \cup {k \in 1..Len(l) : IsCreateTileAt(l, k, tree)}

\* the removals of a log that took a tile out of a slot of the world w
Removals(l, w) ==
  {k \in Logged(l, "RemoveTileAt") :
     BundleTileAt(w, l[k][2], l[k][3], l[k][4], l[k][5]) # NULL}

\* C20: in one Invalidate every RemoveTileAt is made before the lookup of
\* the twin tiling, before every CreateTile and before every AddTileAt, and
\* CreateTile is called afterwards exactly once for each cell a tile was
\* removed from and for no other cell
InvalidateRemovesThenCreates ==
  [][\A t \in Tilings :
       (last_op'.name = "Invalidate" /\ last_op'.t = t) =>
         LET l == log'
             created(c) == {k \in 1..Len(l) : /\ IsCreateTileAt(l, k, PENDING_TREE)
                                                /\ <<l[k][4], l[k][5]>> = c}
         IN /\ \A r \in Logged(l, "RemoveTileAt"), c \in CreationCalls(l, PENDING_TREE) :
                 r < c
            /\ Cardinality(Logged(l, "GetTwinTiling")) = 1
            /\ \A r \in Removals(l, World) :
                 Cardinality(created(<<l[r][4], l[r][5]>>)) = 1
            /\ \A k \in 1..Len(l) :
                 IsCreateTileAt(l, k, PENDING_TREE) =>
                   \E r \in Removals(l, World) :
                     l[r][4] = l[k][4] /\ l[r][5] = l[k][5]]_vars

\* C20 witness: an Invalidate has removed the tiles of two cells and has
\* then created a tile for each of them
InvalidateRemovesThenCreatesWitness ==
  /\ last_op.name = "Invalidate"
  /\ Cardinality(Logged(log, "RemoveTileAt")) >= 2
  /\ Cardinality(Logged(log, "CreateTile") \cup Logged(log, "AddTileAt")) >= 2
  /\ Cardinality({k \in 1..Len(log) : IsCreateTileAt(log, k, PENDING_TREE)}) >= 2

\* the CreateTile calls of a log that the tiling made for the cell c
CreateTileCallsAt(l, tree, c) ==
  {k \in 1..Len(l) : IsCreateTileAt(l, k, tree) /\ <<l[k][4], l[k][5]>> = c}

\* the client's CreateTile returned NULL for the cell c of the grid td
ClientReturnedNull(l, td, c) ==
  \E n \in Logged(l, "CreateTile") :
    /\ l[n][3].x = TileBoundsWithBorder(td, c[1], c[2]).x
    /\ l[n][3].y = TileBoundsWithBorder(td, c[1], c[2]).y
    /\ l[n][4] = NULL

\* C21 as stated: after Invalidate every cell that overlaps the region,
\* scaled to content space and intersected with the live rect, holds a
\* pending tree tile, unless the client returned NULL for it
InvalidateFillsAffected ==
  [][\A t \in Tilings : (last_op'.name = "Invalidate" /\ last_op'.t = t) =>
       \A c \in InvalidatedCells(t, last_op'.args.layer_region) :
         \/ TileAtResult(WorldAfter, t, PENDING_TREE, c[1], c[2]) # NULL
         \/ ClientReturnedNull(log', tilings[t].tiling_data, c)]_vars

\* C21 amended: of the cells that overlap the region within the live rect,
\* Invalidate removes the pending tree tile of each cell that holds one and
\* afterwards calls CreateTile once for it, so that the cell then holds a
\* tile that did not exist before, or the active tree's tile of the cell,
\* unless the client returned NULL; a cell that holds no pending tree tile is
\* skipped: CreateTile is not called for it and it holds no tile afterwards
InvalidateRefillsOccupied ==
  [][\A t \in Tilings : (last_op'.name = "Invalidate" /\ last_op'.t = t) =>
       \A c \in InvalidatedCells(t, last_op'.args.layer_region) :
         LET old == TileAtResult(World, t, PENDING_TREE, c[1], c[2])
             new == TileAtResult(WorldAfter, t, PENDING_TREE, c[1], c[2])
         IN IF old # NULL
              THEN /\ \E r \in Logged(log', "RemoveTileAt") :
                        /\ <<log'[r][4], log'[r][5]>> = c
                        /\ \A k \in CreateTileCallsAt(log', PENDING_TREE, c) : r < k
                   /\ Cardinality(CreateTileCallsAt(log', PENDING_TREE, c)) = 1
                   /\ IF ClientReturnedNull(log', tilings[t].tiling_data, c)
                        THEN new = NULL
                        ELSE /\ new # NULL
                             /\ \/ new \notin World.pre
                                \/ new = TileAtResult(WorldAfter, t, ACTIVE_TREE, c[1], c[2])
              ELSE /\ CreateTileCallsAt(log', PENDING_TREE, c) = {}
                   /\ new = NULL]_vars

\* C21 witness: an Invalidate has put a tile back at a cell and has left
\* another cell of the invalidated part of the live rect without a tile,
\* without a call of the client for it
InvalidateRefillsOccupiedWitness ==
  /\ last_op.name = "Invalidate"
  /\ Logged(log, "RemoveTileAt") # {}
  /\ \E k \in Logged(log, "AddTileAt") :
       TileAtResult(Now, last_op.t, PENDING_TREE, log[k][4], log[k][5]) # NULL
  /\ \E c \in InvalidatedCells(last_op.t, last_op.args.layer_region) :
       /\ TileAtResult(Now, last_op.t, PENDING_TREE, c[1], c[2]) = NULL
       /\ CreateTileCallsAt(log, PENDING_TREE, c) = {}

\* the calls that read the slots of a bundle: the event's second field is
\* the bundle
BundleQueries == {"TileAt", "RemoveTileAt", "IsEmpty", "Iterator"}

\* C22: every call of an operation that reads a bundle (a tile lookup, a
\* tile removal, the emptiness test, the construction of a tile iterator in
\* DidBecomeActive, UpdateTilesToCurrentPile and GPUMemoryUsageInBytes)
\* comes after a SwapTilesIfRequired call on that bundle in the same
\* operation
SwapBeforeEveryQuery ==
  \A k \in 1..Len(log) :
    log[k][1] \in BundleQueries =>
      \E j \in 1..(k - 1) :
        log[j][1] = "SwapTilesIfRequired" /\ log[j][2] = log[k][2]

\* the bundles a tiling holds
BundlesOf(tl, t) == {tl[t].tile_bundles[key] : key \in DOMAIN tl[t].tile_bundles}

\* the tiles a bundle holds for a tree
TreeTiles(h, b, tree) == {h[b].tiles[s] : s \in {q \in DOMAIN h[b].tiles : q[1] = tree}}

\* the position of the last call of a kind at or before the k-th of a log,
\* 0 when there is none
LastBefore(l, kind, k) ==
  LET before == {j \in Logged(l, kind) : j <= k}
  IN IF before = {} THEN 0 ELSE CHOOSE j \in before : \A i \in before : i <= j

\* C23: DidBecomeActive notifies every bundle of the tiling once, after the
\* notification of a bundle and before that of the next it hands each tile
\* the bundle then holds for the active tree to UpdatePile once and no other
\* tile, current_tree_ keeps its old value while the client is called and is
\* ACTIVE_TREE when the operation returns
BecomeActiveBundleByBundle ==
  [][last_op'.name = "DidBecomeActive" =>
      LET t == last_op'.t
          l == log'
          notified == Logged(l, "DidBecomeActive")
          updated == Logged(l, "UpdatePile")
      IN /\ \A b \in BundlesOf(tilings', t) :
              /\ Cardinality({k \in notified : l[k][2] = b}) = 1
              /\ \A tile \in TreeTiles(heap', b, ACTIVE_TREE) :
                   Cardinality({k \in updated : l[k][2] = tile}) = 1
         /\ \A k \in notified : l[k][2] \in BundlesOf(tilings', t)
         /\ \A k \in updated :
              /\ LastBefore(l, "DidBecomeActive", k) # 0
              /\ l[k][2] \in TreeTiles(heap', l[LastBefore(l, "DidBecomeActive", k)][2],
                                       ACTIVE_TREE)
              /\ l[k][3] = tilings[t].current_tree
         /\ tilings'[t].current_tree = ACTIVE_TREE]_vars

\* a DidBecomeActive of a pending tiling with two bundles that hands two
\* tiles to UpdatePile
BecomeActiveBundleByBundleWitness ==
  /\ last_op.name = "DidBecomeActive"
  /\ Cardinality(Logged(log, "DidBecomeActive")) = 2
  /\ Cardinality(Logged(log, "UpdatePile")) >= 2
  /\ \E k \in Logged(log, "UpdatePile") : log[k][3] = PENDING_TREE

\* C24: UpdateTilesToCurrentPile hands every tile a bundle of the tiling
\* holds for the pending tree to UpdatePile once, calls nothing else but
\* the bundles' iterators, and leaves the tilings and the bundles as they
\* were
RefreshRebindsPendingOnly ==
  [][last_op'.name = "UpdateTilesToCurrentPile" =>
      LET t == last_op'.t
          l == log'
          updated == Logged(l, "UpdatePile")
          pending == UNION {TreeTiles(World.heap, b, PENDING_TREE) :
                              b \in BundlesOf(World.tl, t)}
      IN /\ \A tile \in pending : Cardinality({k \in updated : l[k][2] = tile}) = 1
         /\ \A k \in updated : l[k][2] \in pending
         /\ \A k \in 1..Len(l) : l[k][1] \in {"Iterator", "UpdatePile"}
         /\ tilings' = World.tl
         /\ heap' = World.heap]_vars

\* an UpdateTilesToCurrentPile that hands two pending tree tiles to
\* UpdatePile while a bundle holds an active tree tile that is not pending
RefreshRebindsPendingOnlyWitness ==
  /\ last_op.name = "UpdateTilesToCurrentPile"
  /\ Cardinality(Logged(log, "UpdatePile")) >= 2
  /\ \E b \in BundlesOf(tilings, last_op.t) :
       TreeTiles(heap, b, ACTIVE_TREE) \ TreeTiles(heap, b, PENDING_TREE) # {}

\* the cells of the grid td a TilingData::Iterator visits for a rectangle of
\* the layer region, scaled to content space and intersected with live
HitCells(td, scale, live, layer_region) ==
  UNION {CellsOf(td, IntersectRects(
                       ScaleToEnclosingRect(layer_region[k], scale[1], scale[2]), live)) :
           k \in 1..Len(layer_region)}

\* the removals of a log from the pending tree slot of a cell
RemovalsAt(l, c) ==
  {k \in Logged(l, "RemoveTileAt") : l[k][3] = PENDING_TREE /\ <<l[k][4], l[k][5]>> = c}

\* t has got bounds other than its own for which the client keeps the tile
\* size
KeepsTileSize(t) ==
  /\ last_op'.name = "SetLayerBounds" /\ last_op'.t = t
  /\ last_op'.args.layer_bounds # tilings[t].layer_bounds
  /\ CalculateTileSize(ContentBoundsFor(t, last_op'.args.layer_bounds))
       = tilings[t].tiling_data.tile

UpdateStep(t) ==
  /\ last_op'.name = "UpdateTilePriorities" /\ last_op'.t = t
  /\ ~last_op'.args.skipped
  /\ ~IsEmpty(RectOfSize(tilings[t].tiling_data.total))

\* the rect the interest rect of an update is grown from
StartingRect(t, in) ==
  LET scale == tilings[t].contents_scale
      visible == ScaleToEnclosingRect(in.visible_layer_rect, scale[1], scale[2])
      viewport == ScaleToEnclosingRect(in.viewport_in_layer_space, scale[1], scale[2])
  IN IF IsEmpty(visible) THEN viewport ELSE visible

\* the interest rect of an update, computed without a memo
InterestRect(t, in) ==
  ExpandRectEquallyToAreaBoundedBy(
    StartingRect(t, in),
    in.max_tiles_for_interest_area * tilings[t].tiling_data.tile.w
      * tilings[t].tiling_data.tile.h,
    RectOfSize(tilings[t].tiling_data.total),
    NewRectExpansionCache).result

\* C26: after an UpdateTilePriorities that is not skipped, on a content rect
\* that is not empty, the live rect is ExpandRectEquallyToAreaBoundedBy of
\* the visible rect scaled to content space (of the scaled viewport when the
\* visible rect is empty), of max_tiles_for_interest_area times the width and
\* the height of a tile, and of the content rect, and
\* last_impl_frame_time_in_seconds_ is the frame time passed
UpdateSetsLiveRect ==
  [][\A t \in Tilings : UpdateStep(t) =>
       /\ tilings'[t].live_tiles_rect = InterestRect(t, last_op'.args.in)
       /\ tilings'[t].last_impl_frame_time_in_seconds
            = last_op'.args.in.current_frame_time_in_seconds]_vars

\* C26 witness: an update with a visible rect at the last frame time has left a
\* live rect that is smaller than the content rect, larger than the scaled
\* visible rect and away from the viewport's corner
UpdateSetsLiveRectWitness ==
  /\ last_op.name = "UpdateTilePriorities" /\ ~last_op.args.skipped
  /\ ~IsEmpty(last_op.args.in.visible_layer_rect)
  /\ last_op.args.in.current_frame_time_in_seconds = MaxFrameTime
  /\ LET live == tilings[last_op.t].live_tiles_rect
         start == ScaleToEnclosingRect(last_op.args.in.visible_layer_rect, 1, 2)
     IN /\ live # RectOfSize(tilings[last_op.t].tiling_data.total)
        /\ Contains(live, start) /\ live # start
        /\ ~Contains(live, Rect(0, 0, 1, 1))

\* the keys of the bundles of t that the bundle grid has for the cells of a
\* rect
KeysInside(tl, t, rect) ==
  CellsOf(tl[t].bundle_tiling_data, rect) \cap DOMAIN tl[t].tile_bundles

\* C27: an UpdateTilePriorities that is not skipped calls SetPriority once
\* for each bundle the tiling holds under a key of the bundle grid cells of
\* the interest rect, for the tree passed, and for no other bundle or tree;
\* the record written has the resolution of the tiling; the record of the
\* other tree of every bundle, and both records of the bundles outside the
\* interest rect, are what they were
PriorityWrittenInsideInterest ==
  [][\A t \in Tilings : UpdateStep(t) =>
       LET in == last_op'.args.in
           l == log'
           inside == {tilings'[t].tile_bundles[key] :
                        key \in KeysInside(tilings', t, InterestRect(t, in))}
           written == Logged(l, "SetPriority")
           \* a bundle made by the update starts with the records of a new
           \* bundle
           before == World.heap
           Before(b) == IF \E k \in Logged(l, "CreateTileBundle") : l[k][4] = b
                          THEN NewTileBundle.priority
                          ELSE before[b].priority
       IN /\ \A k \in written : l[k][2] \in inside /\ l[k][3] = in.tree
          /\ \A b \in inside :
               /\ Cardinality({k \in written : l[k][2] = b}) = 1
               /\ heap'[b].priority[in.tree].resolution = tilings[t].resolution
          /\ \A b \in DOMAIN heap' :
               /\ heap'[b].priority[TwinTree(in.tree)] = Before(b)[TwinTree(in.tree)]
               /\ b \notin inside => heap'[b].priority = Before(b)]_vars

\* C27 witness: an update of a tiling of high resolution has written the
\* record of a bundle whose record of the other tree was written before,
\* while the tiling holds a bundle outside the interest rect whose record
\* was written before
PriorityWrittenInsideInterestWitness ==
  /\ last_op.name = "UpdateTilePriorities" /\ ~last_op.args.skipped
  /\ tilings[last_op.t].resolution = HIGH_RESOLUTION
  /\ LET t == last_op.t
         tree == last_op.args.in.tree
         keys == KeysInside(tilings, t, tilings[t].live_tiles_rect)
     IN /\ \E key \in keys :
             /\ heap[tilings[t].tile_bundles[key]].priority[tree].resolution
                  = HIGH_RESOLUTION
             /\ heap[tilings[t].tile_bundles[key]].priority[TwinTree(tree)]
                  # DefaultPriority
        /\ \E key \in (DOMAIN tilings[t].tile_bundles) \ keys :
             heap[tilings[t].tile_bundles[key]].priority[TwinTree(tree)] # DefaultPriority

\* the delta the k-th pass of the event loop computes in the state st,
\* before it is clamped
ComputedDelta(st, target_area) ==
  ComputeExpansionDelta(st.num_x_edges, st.num_y_edges, st.width, st.height, target_area)

\* C28: in every call whose event loop runs, the events are taken in an
\* order of non-decreasing distance, and the pass for an event whose
\* computed delta is smaller than the distance the event has left is the
\* last one: the loop takes no further event, so no edge moves and no edge
\* count is decremented after it
LoopStopsWhenTargetReached ==
  ExpansionCalled =>
    LET steps == StepsOfCall(last_op.args)
    IN \A k \in 1..(Len(steps) - 1) :
         /\ \A i \in k..3 :
              steps[k].events[i].distance <= steps[k].events[i + 1].distance
         /\ ComputedDelta(steps[k], last_op.args.target_area)
              < steps[k].events[k].distance => Len(steps) = k + 1

\* C29: in a SetLiveTilesRect, CreateTile is called once for each cell of
\* the new live rect that is no cell of the old one, whatever the client
\* answered for the cells before it; nothing is put into the slot of a cell
\* for which the client returned NULL, so a slot that was unoccupied stays
\* unoccupied, and every other of these cells has a tile
NullTileLeavesSlotEmpty ==
  [][\A t \in Tilings :
       (/\ last_op'.name = "SetLiveTilesRect" /\ last_op'.t = t
        /\ tilings'[t].live_tiles_rect # tilings[t].live_tiles_rect) =>
         LET l == log'
             td == tilings[t].tiling_data
             tree == tilings[t].current_tree
             cells == CellsOf(td, tilings'[t].live_tiles_rect)
                        \ CellsOf(td, tilings[t].live_tiles_rect)
         IN \A c \in cells :
              /\ Cardinality(CreateTileCallsAt(l, tree, c)) = 1
              /\ IF ClientReturnedNull(l, td, c)
                   THEN /\ TileAtResult(WorldAfter, t, tree, c[1], c[2])
                             = TileAtResult(World, t, tree, c[1], c[2])
                        /\ \A k \in Logged(l, "AddTileAt") :
                             <<l[k][3], l[k][4], l[k][5]>> # <<tree, c[1], c[2]>>
                   ELSE TileAtResult(WorldAfter, t, tree, c[1], c[2]) # NULL]_vars

\* C29 witness: in a SetLiveTilesRect the client returned NULL for a cell and
\* made a tile for a later cell, and the tiling is left with the new live
\* rect and without a tile in the slot of the first
NullTileLeavesSlotEmptyWitness ==
  /\ last_op.name = "SetLiveTilesRect"
  /\ last_op.args.env.null_cells = {<<1, 0>>}
  /\ ~IsEmpty(tilings[last_op.t].live_tiles_rect)
  /\ TileAtResult(Now, last_op.t, tilings[last_op.t].current_tree, 1, 0) = NULL
  /\ \E n, m \in Logged(log, "CreateTile") :
       n < m /\ log[n][4] = NULL /\ log[m][4] # NULL

\* the tiling that is not t
TwinOf(t) == IF t = "A" THEN "B" ELSE "A"

\* the slots of a tree a bundle holds, with their tiles
TreeSlots(h, b, tree) ==
  [q \in {q \in DOMAIN h[b].tiles : q[1] = tree} |-> h[b].tiles[q]]

\* C30: the destructor removes the tile of the current tree from every cell
\* of the live rect and tests each bundle it took a tile from for emptiness;
\* a bundle the twin tiling holds too stays under the twin's key with every
\* slot of the other tree as it was and without the current tree's tiles of
\* the live cells; a bundle no other tiling holds is gone
DestroyTearsDownLiveRect ==
  [][\A t \in Tilings : (last_op'.name = "Destroy" /\ last_op'.t = t) =>
       LET before == World
           l == log'
           tree == tilings[t].current_tree
           cells == CellsOf(tilings[t].tiling_data, tilings[t].live_tiles_rect)
           mine == BundlesOf(before.tl, t)
           shared == mine \cap BundlesOf(before.tl, TwinOf(t))
       IN /\ \A c \in cells :
               TileAtResult(before, t, tree, c[1], c[2]) # NULL =>
                 \E k \in Logged(l, "RemoveTileAt") :
                   /\ <<l[k][3], l[k][4], l[k][5]>> = <<tree, c[1], c[2]>>
                   /\ l[k + 1] = <<"IsEmpty", l[k][2]>>
          /\ \A k \in Logged(l, "RemoveTileAt") :
               l[k][3] = tree /\ <<l[k][4], l[k][5]>> \in cells
          /\ Logged(l, "AddTileAt") = {} /\ Logged(l, "CreateTile") = {}
          /\ ~tilings'[t].alive
          /\ tilings'[TwinOf(t)] = before.tl[TwinOf(t)]
          /\ DOMAIN heap' = (DOMAIN before.heap) \ (mine \ shared)
          /\ \A b \in shared :
               /\ TreeSlots(heap', b, TwinTree(tree))
                    = TreeSlots(before.heap, b, TwinTree(tree))
               /\ \A q \in DOMAIN before.heap[b].tiles :
                    q[1] = tree =>
                      IF <<q[2], q[3]>> \in cells
                        THEN q \notin DOMAIN heap'[b].tiles
                        ELSE /\ q \in DOMAIN heap'[b].tiles
                             /\ heap'[b].tiles[q] = before.heap[b].tiles[q]
          /\ \A b \in (DOMAIN heap') \ mine : heap'[b] = before.heap[b]]_vars

\* C30 witness: a tiling was destroyed whose tiles were removed from a bundle
\* that its twin still holds, with tiles of the other tree in it
DestroyTearsDownLiveRectWitness ==
  /\ last_op.name = "Destroy"
  /\ Alive(TwinOf(last_op.t))
  /\ \E k \in Logged(log, "RemoveTileAt") :
       /\ log[k][2] \in BundlesOf(tilings, TwinOf(last_op.t))
       /\ TreeTiles(heap, log[k][2], TwinTree(log[k][3])) # {}
       /\ TreeTiles(heap, log[k][2], log[k][3]) = {}

\* the operations that fill and empty the cells of the live rect
LiveRectOps == {"SetLiveTilesRect", "Invalidate", "CreateMissingTilesInLiveTilesRect"}

\* the slots of a tree in a bundle of the heap h, none if the bundle is not there
SlotsIn(h, b, tree) ==
  IF b \in DOMAIN h THEN TreeSlots(h, b, tree) ELSE <<>>

\* C31: SetLiveTilesRect, Invalidate and CreateMissingTilesInLiveTilesRect of
\* a tiling add and remove tiles in slots of its current tree only: every
\* bundle, shared with the twin tiling or not, holds in the slots of the other
\* tree the same tiles after the call as before it
OtherTreeSlotsKept ==
  [][\A t \in Tilings :
       (last_op'.name \in LiveRectOps /\ last_op'.t = t) =>
         LET before == World.heap
             l == log'
             tree == tilings[t].current_tree
         IN /\ tilings'[t].current_tree = tree
            /\ \A k \in Logged(l, "AddTileAt") \cup Logged(l, "RemoveTileAt") :
                 l[k][3] = tree
            /\ \A b \in (DOMAIN before) \cup (DOMAIN heap') :
                 SlotsIn(heap', b, TwinTree(tree)) = SlotsIn(before, b, TwinTree(tree))]_vars

\* C31 witness: one of the three calls removed and added tiles of its tree in
\* a bundle that the twin tiling holds too and that has tiles of the other tree
OtherTreeSlotsKeptWitness ==
  /\ last_op.name \in LiveRectOps
  /\ Alive(TwinOf(last_op.t))
  /\ \E k \in Logged(log, "RemoveTileAt"), n \in Logged(log, "AddTileAt") :
       /\ log[k][2] = log[n][2]
       /\ log[k][2] \in BundlesOf(tilings, TwinOf(last_op.t))
       /\ log[k][2] \in BundlesOf(tilings, last_op.t)
       /\ TreeTiles(heap, log[k][2], TwinTree(log[k][3])) # {}

\* the call started from a non-empty rectangle no larger than the target area
SmallStart(in) ==
  /\ ~IsEmpty(in.starting_rect)
  /\ in.starting_rect.w * in.starting_rect.h <= in.target_area

\* C32: when the area of the starting rectangle is at most the target area,
\* the area of the rectangle returned is at most the target area, and so is
\* width * height in every state of the event loop
AreaWithinTarget ==
  (ExpansionCalled /\ SmallStart(last_op.args)) =>
    LET steps == StepsOfCall(last_op.args)
        target_area == last_op.args.target_area
    IN /\ last_op.args.result.w * last_op.args.result.h <= target_area
       /\ \A k \in 1..Len(steps) : steps[k].width * steps[k].height <= target_area

\* C32 witness: a call from a small starting rectangle whose loop computed a
\* delta of at least 1 that one more pixel would have carried past the target
\* area, and whose result is smaller than the target area
AreaWithinTargetWitness ==
  /\ ExpansionCalled /\ ~last_op.args.hit /\ SmallStart(last_op.args)
  /\ last_op.args.result.w * last_op.args.result.h < last_op.args.target_area
  /\ LET steps == StepsOfCall(last_op.args)
         Truncated(st, delta) ==
           /\ delta >= 1
           /\ (st.width + st.num_x_edges * delta) * (st.height + st.num_y_edges * delta)
                < last_op.args.target_area
           /\ (st.width + st.num_x_edges * (delta + 1))
                * (st.height + st.num_y_edges * (delta + 1))
                > last_op.args.target_area
     IN \E k \in 1..(Len(steps) - 1) :
          /\ steps[k + 1] # steps[k]
          /\ Truncated(steps[k], ComputedDelta(steps[k], last_op.args.target_area))

CreateMissingStep(t) ==
  last_op'.name = "CreateMissingTilesInLiveTilesRect" /\ last_op'.t = t

\* C33 as stated: CreateMissingTilesInLiveTilesRect makes a pending tree tile
\* for exactly the cells of the live rect that have none, so that every cell
\* of the live rect holds one afterwards, and every pending tree tile that
\* was there is the same object afterwards
CreateMissingFillsLiveRect ==
  [][\A t \in Tilings : CreateMissingStep(t) =>
       LET before == World
           td == tilings[t].tiling_data
           Old(c) == TileAtResult(before, t, PENDING_TREE, c[1], c[2])
           New(c) == TileAtResult(WorldAfter, t, PENDING_TREE, c[1], c[2])
       IN \A c \in GridCells(td) :
            IF c \in CellsOf(td, tilings[t].live_tiles_rect) /\ Old(c) = NULL
              THEN New(c) # NULL
              ELSE New(c) = Old(c)]_vars

\* C33 amended: CreateMissingTilesInLiveTilesRect calls CreateTile once for
\* each cell of the live rect that has no pending tree tile and for no other
\* cell; such a cell then holds a tile, a new one or the active tree's,
\* unless the client returned NULL for it, and then it holds none; every
\* pending tree tile that was there is the same object afterwards; a second
\* call right after it, whatever the client answers, calls CreateTile for no
\* cell that holds a tile and leaves those tiles the same objects
CreateMissingCreatesMissingOnly ==
  [][\A t \in Tilings : CreateMissingStep(t) =>
       LET before == World
           l == log'
           td == tilings[t].tiling_data
           live == CellsOf(td, tilings[t].live_tiles_rect)
           Old(c) == TileAtResult(before, t, PENDING_TREE, c[1], c[2])
           New(c) == TileAtResult(WorldAfter, t, PENDING_TREE, c[1], c[2])
           Untouched(second, first) ==
             \A c \in GridCells(td) :
               TileAtResult(first, t, PENDING_TREE, c[1], c[2]) # NULL =>
                 /\ CreateTileCallsAt(second.log, PENDING_TREE, c) = {}
                 /\ TileAtResult(second, t, PENDING_TREE, c[1], c[2])
                      = TileAtResult(first, t, PENDING_TREE, c[1], c[2])
           Again(env) ==
             CreateMissingTilesInLiveTilesRect(
               [tl |-> tilings', heap |-> heap', log |-> <<>>,
                pre |-> TilesOf(WorldAfter)], t, env)
       IN /\ \A c \in GridCells(td) :
               IF c \in live /\ Old(c) = NULL
                 THEN /\ Cardinality(CreateTileCallsAt(l, PENDING_TREE, c)) = 1
                      /\ New(c) = NULL <=> ClientReturnedNull(l, td, c)
                      /\ New(c) # NULL =>
                           \/ New(c) \notin before.pre
                           \/ New(c) = TileAtResult(before, t, ACTIVE_TREE, c[1], c[2])
                 ELSE /\ CreateTileCallsAt(l, PENDING_TREE, c) = {}
                      /\ New(c) = Old(c)
          /\ tilings'[t].live_tiles_rect = tilings[t].live_tiles_rect
          /\ \A env \in Inputs.envs : Untouched(Again(env), WorldAfter)]_vars

\* C33 witness: a CreateMissingTilesInLiveTilesRect has left the tile of one
\* cell of the live rect alone, has put a tile into another cell, and has
\* left a third cell empty because the client returned NULL for it
CreateMissingCreatesMissingOnlyWitness ==
  /\ last_op.name = "CreateMissingTilesInLiveTilesRect"
  /\ LET t == last_op.t
         td == tilings[t].tiling_data
         Held(c) == TileAtResult(Now, t, PENDING_TREE, c[1], c[2]) # NULL
         Called(c) == CreateTileCallsAt(log, PENDING_TREE, c) # {}
     IN \E c1, c2, c3 \in CellsOf(td, tilings[t].live_tiles_rect) :
          /\ Held(c1) /\ ~Called(c1)
          /\ Held(c2) /\ Called(c2)
          /\ ~Held(c3) /\ Called(c3) /\ ClientReturnedNull(log, td, c3)

\* C34: a step in which a notification calls the client starts in a state
\* where Release has not yet cleared client_ under the lock, so none is made
\* once Release has returned; a notification that ends after client_ was
\* cleared makes no call; and a Release that waits for the lock while a
\* notification holds it clears client_ only after that notification
ClientNotCalledAfterRelease ==
  [][/\ Len(proxy'.client_calls) > Len(proxy.client_calls) =>
          /\ proxy.release.pc \in {"idle", "entered"}
          /\ proxy.lock_ \in {"OnFrameAvailable", "OnMatrixChanged"}
          /\ proxy.client_ = TheClient
     /\ (proxy.loop_thread = "notification" /\ proxy'.loop_thread = "idle"
         /\ proxy.release.pc \in {"cleared", "returned"}) =>
          (proxy'.client_calls = proxy.client_calls /\ proxy'.skipped = proxy.skipped + 1)
     /\ (proxy.release.pc = "entered" /\ proxy'.release.pc = "cleared") =>
          (proxy.lock_ = "free" /\ proxy'.client_ = NULL)
     /\ proxy.release.pc \in {"cleared", "returned"} => proxy'.client_ = NULL]_vars

\* C34 witness: Release, called on another thread than the loop's, has
\* returned; one notification called the client while Release waited for
\* the lock, and a later one found client_ cleared and made no call
ClientNotCalledAfterReleaseWitness ==
  /\ proxy.exists /\ proxy.release.pc = "returned"
  /\ proxy.release.thread = OtherThread
  /\ proxy.called_before_clear
  /\ proxy.skipped >= 1

\* C35: the proxy is deleted at most once, by the DeleteSoon task on the
\* loop thread or at once when it has no loop, when Release runs on the
\* loop thread or when the loop takes no task, and no BindOnThread task
\* runs on a deleted proxy
BindTaskNeverOnDeletedProxy ==
  proxy.exists =>
    /\ proxy.deletions <= 1
    /\ proxy.deleted_by = "DeleteSoon" => proxy.deleted_on = LoopThread
    /\ proxy.deleted_by = "delete this" =>
         \/ proxy.loop_ = NULL
         \/ proxy.deleted_on = LoopThread
         \/ ~proxy.accepting
    /\ ~proxy.undefined

\* the arguments <<num_x_edges, num_y_edges, width, height>> of the calls of
\* ComputeExpansionDelta that a call of the expansion makes: the one before
\* the loop and one for each pass of the loop
DeltaCalls(in) ==
  LET steps == StepsOfCall(in)
  IN {<<2, 2, in.starting_rect.w, in.starting_rect.h>>}
       \cup {<<steps[k].num_x_edges, steps[k].num_y_edges,
               steps[k].width, steps[k].height>> : k \in 1..(Len(steps) - 1)}

\* the divisor is not zero and the value under the square root is not negative
DeltaDefined(num_x_edges, num_y_edges, width, height, target_area) ==
  LET a == num_y_edges * num_x_edges
      b == num_y_edges * width + num_x_edges * height
      c == width * height - target_area
  IN /\ IF a = 0 THEN b # 0 ELSE 2 * a # 0
     /\ b * b - 4 * a * c >= 0

\* C36: in every call of ComputeExpansionDelta that the expansion of a
\* non-empty starting rectangle makes, the two edge counts are between 0 and
\* 2 and not both zero, width and height are positive, the divisor is not
\* zero and b*b - 4*a*c is not negative, also when the area is larger than
\* the target area; width and height are positive in every state of the loop
DeltaAlwaysDefined ==
  (ExpansionCalled /\ ~IsEmpty(last_op.args.starting_rect)) =>
    /\ \A call \in DeltaCalls(last_op.args) :
         /\ call[1] \in 0..2 /\ call[2] \in 0..2 /\ call[1] + call[2] >= 1
         /\ call[3] > 0 /\ call[4] > 0
         /\ DeltaDefined(call[1], call[2], call[3], call[4], last_op.args.target_area)
    /\ \A k \in 1..Len(StepsOfCall(last_op.args)) :
         /\ StepsOfCall(last_op.args)[k].width > 0
         /\ StepsOfCall(last_op.args)[k].height > 0

\* C36 witness: a call whose loop computed a delta with no edge left in one
\* axis (a = 0: the divisor is b) for a rectangle smaller than the target area
DeltaAlwaysDefinedWitness ==
  /\ ExpansionCalled /\ ~last_op.args.hit
  /\ \E call \in DeltaCalls(last_op.args) :
       /\ call[1] * call[2] = 0
       /\ call[3] * call[4] < last_op.args.target_area

=============================================================================
